---- MODULE Spec2Model ----
(***************************************************************************)
(* Session-managed streamable-HTTP MCP servers of the repository:          *)
(*   "demo"  3-streamable/DemoServer  (mcp-express-handlers.ts)            *)
(*   "auth"  4-auth                   (lib/streamable-http.ts, with the    *)
(*           bearer-token middleware and the AsyncLocalStorage context)    *)
(*   "plain" the streamable-http.ts without authentication                 *)
(* One behaviour of the model is one run of one of the three servers.      *)
(*                                                                         *)
(* A request is a record that moves through the steps of its handler; a    *)
(* step of the model is the code a handler runs between two suspension     *)
(* points (Node runs it without interleaving).  The SDK transport          *)
(* (StreamableHTTPServerTransport) is the environment of the handlers: it  *)
(* is modelled by the contract the handlers rely on, for requests that are *)
(* well formed for it (Accept / Content-Type / JSON-RPC shape).            *)
(***************************************************************************)
EXTENDS Integers, Sequences, FiniteSets, Bags, TLC

----------------------------------------------------------------------------
(* Bounds of the model.                                                    *)
MaxTransports == 2   \* transports (sessions) created in one behaviour
MaxInFlight == 2     \* requests being handled at the same time
MaxNested == 1       \* nested asynchronous operations per request chain

----------------------------------------------------------------------------
(* JavaScript values.                                                      *)
Undefined == "<undefined>"      \* a string-typed slot holding undefined
UndefinedSeq == <<Undefined>>   \* the same for a string kept as characters
NoTransport == 0                \* transports[k] === undefined
ProtoMember == -1               \* a member inherited from Object.prototype
NoStore == <<>>                 \* AsyncLocalStorage.getStore() === undefined

\* truthiness of a string | undefined
TruthyStr(s) == s # Undefined /\ s # ""
\* truthiness of a string | null | undefined kept as characters
TruthySeq(s) == s # UndefinedSeq /\ s # <<>>
\* truthiness of an object reference | undefined
TruthyRef(x) == x # NoTransport

\* the keys every object literal {} inherits
ObjectPrototypeKeys == {"constructor"}

\* variant: one transport slot shared by all sessions (the last one stored)
RefGetLatest(obj, key) ==
    IF DOMAIN obj = {} THEN NoTransport
    ELSE CHOOSE v \in {obj[k] : k \in DOMAIN obj} :
             \A k \in DOMAIN obj : obj[k] <= v

\* obj[key] on an object literal used as a map
RefGet(obj, key) ==
    IF key \in DOMAIN obj THEN obj[key]
    ELSE IF key \in ObjectPrototypeKeys THEN ProtoMember
    ELSE NoTransport

\* obj[key] = value
RefSet(obj, key, value) ==
    [k \in DOMAIN obj \cup {key} |-> IF k = key THEN value ELSE obj[k]]

\* variant: removal by position, as with splice(indexOf(key), 1) on a list,
\* which removes the last entry when the key is absent
RefDeleteSplice(obj, key) ==
    LET gone == IF key \in DOMAIN obj \/ DOMAIN obj = {} THEN {key}
                ELSE {CHOOSE k \in DOMAIN obj : \A o \in DOMAIN obj : obj[o] <= obj[k]}
    IN [k \in DOMAIN obj \ gone |-> obj[k]]

\* delete obj[key]  (a key that is no own property: no effect)
RefDelete(obj, key) == [k \in DOMAIN obj \ {key} |-> obj[k]]

\* variant: the inherited members are counted as well
KeyCountInherited(obj) == Cardinality(DOMAIN obj \cup ObjectPrototypeKeys)

\* Object.keys(obj).length
KeyCount(obj) == Cardinality(DOMAIN obj)

----------------------------------------------------------------------------
(* Strings as sequences of characters (the Authorization header).          *)
BearerSep == <<"B", "e", "a", "r", "e", "r", " ">>

\* s?.startsWith(p)
StartsWith(s, p) ==
    s # UndefinedSeq /\ Len(s) >= Len(p) /\ SubSeq(s, 1, Len(p)) = p

\* s.indexOf(p, from), 1-based; 0 when p does not occur at or after from
RECURSIVE IndexOfFrom(_, _, _)
IndexOfFrom(s, p, from) ==
    IF from + Len(p) - 1 > Len(s) THEN 0
    ELSE IF SubSeq(s, from, from + Len(p) - 1) = p THEN from
    ELSE IndexOfFrom(s, p, from + 1)

\* s.split(p): the pieces of s between the occurrences of p
RECURSIVE Split(_, _)
Split(s, p) ==
    LET i == IndexOfFrom(s, p, 1) IN
    IF i = 0 THEN <<s>>
    ELSE <<SubSeq(s, 1, i - 1)>> \o Split(SubSeq(s, i + Len(p), Len(s)), p)

\* s.trim()
RECURSIVE Trim(_)
Trim(s) ==
    IF s = <<>> THEN s
    ELSE IF Head(s) = " " THEN Trim(Tail(s))
    ELSE IF s[Len(s)] = " " THEN Trim(SubSeq(s, 1, Len(s) - 1))
    ELSE s


----------------------------------------------------------------------------
(* The state of one server process.                                        *)
VARIABLES
    server,       \* which of the three servers this behaviour runs
    transports,   \* the registry: session id -> transport (an object literal)
    tobj,         \* the StreamableHTTPServerTransport objects created so far
    mcpServers,   \* number of McpServer instances (1 shared; demo: per session)
    uuids,        \* number of randomUUID() calls made
    reqs,         \* the bag of suspended requests (handler awaiting, response open)
    known,        \* session ids the client has received in a response header
    resp,         \* the response being delivered to the client, if any
    observed,     \* the getAuthContext() call a nested operation just made
    closeEvent,   \* the close() call the server has just made on a transport
    stream,       \* the response stream of the server-sent-events router
    client,       \* the browser page that reads /sse/custom-events-with-id
    stdio,        \* the stdio server: the lines it has read, what it has written
    password      \* the password builder: its arguments, its loop and its result

vars == <<server, transports, tobj, mcpServers, uuids, reqs, known, resp,
          observed, closeEvent, stream, client, stdio, password>>

\* the state of the session-managed servers / of the SSE router
sessionVars == <<server, transports, tobj, mcpServers, uuids, reqs, known,
                 resp, observed, closeEvent>>

Servers == {"demo", "auth", "plain"}
Methods == {"POST", "GET", "DELETE"}

\* variant: a session id generator that returns the same value every time
fixedUUID(n) == "uuid-1"

\* crypto.randomUUID(): the n-th value drawn; values never repeat
UuidPool == <<"uuid-1", "uuid-2", "uuid-3", "uuid-4", "uuid-5", "uuid-6">>

randomUUID(n) == UuidPool[n]

\* Mcp-Session-Id header values a client can send: none, an empty value, a
\* value the server never issued, the name of an inherited object member, or
\* an id it has received
SessionHeaders == {Undefined, "", "bogus", "constructor"} \cup known

\* req.body of a POST: an initialize request or any other JSON-RPC request
Bodies == {"initialize", "tools/call"}

\* Authorization header values
AuthBasic == <<"B", "a", "s", "i", "c", " ", "a">>
AuthHeaders == {
    UndefinedSeq,                  \* no header
    AuthBasic,                     \* another scheme
    BearerSep,                     \* "Bearer " with an empty token
    BearerSep \o <<"a">>,          \* token of alice
    BearerSep \o <<" ", "b", " ">>,\* token of bob, padded
    BearerSep \o <<"x">> }         \* a token the validation service rejects

\* scalekit.validateToken: the tokens it accepts, and the claims it returns
ValidTokens == {<<"a">>, <<"b">>}
ClaimsOf(token) == <<"s", "u", "b", "=">> \o token

\* WWW_AUTHENTICATE_HEADER.value and the discovery routes, as path segments
\* below the server's origin; resourceId is <origin>/mcp
ResourceId == <<"mcp">>
WellKnown == <<".well-known", "oauth-protected-resource">>
WwwAuthenticateResourceMetadata == ResourceId \o WellKnown
DiscoveryRoutes == { WellKnown \o <<"mcp">>, <<"mcp">> \o WellKnown }
NoChallenge == <<>>

\* the paths of the routes, as path segments
McpPath == <<"mcp">>
HealthPath == <<"health">>
PublicPaths == {HealthPath} \cup DiscoveryRoutes

\* variant: the error object with the code of another JSON-RPC error
InvalidRequestError ==
    [jsonrpc |-> "2.0",
     code |-> -32600, message |-> "Bad Request: No valid session ID provided",
     id |-> "null"]

\* JSON-RPC error objects and plain bodies of the routers
NoValidSessionIdError ==
    [jsonrpc |-> "2.0",
     code |-> -32000, message |-> "Bad Request: No valid session ID provided",
     id |-> "null"]
InternalServerError ==
    [jsonrpc |-> "2.0",
     code |-> -32603, message |-> "Internal server error", id |-> "null"]
MethodNotAllowedError ==
    [jsonrpc |-> "2.0",
     code |-> -32000, message |-> "Method not allowed", id |-> "null"]
PlainBody(text) ==
    [jsonrpc |-> "none", code |-> 0, message |-> text, id |-> "none"]
InvalidOrMissingSessionId == PlainBody("Invalid or missing session ID")
NoBody == PlainBody("")
\* what the SDK transport writes itself
SdkResult == PlainBody("sdk: result")
SdkAlreadyInitialized == PlainBody("sdk: server already initialized")
SdkConflict == PlainBody("sdk: only one SSE stream per session")
SdkNotAcceptable == PlainBody("sdk: client must accept both media types")
\* Express' final handler for a rejected route handler
ExpressError == PlainBody("express: TypeError")
\* Express' final handler when no route matches
ExpressNotFound == PlainBody("express: Cannot GET")
\* res.json of handleOAuthProtectedResource
ProtectedResourceMetadata == PlainBody("oauth-protected-resource metadata")
\* res.json of GET /health
HealthBody(activeSessions) ==
    [status |-> "healthy", activeSessions |-> activeSessions]

\* new StreamableHTTPServerTransport({...}) before any request
NewTransport(srv) ==
    [sessionId |-> Undefined, initialized |-> FALSE, closed |-> FALSE,
     sse |-> FALSE, server |-> srv, connects |-> 0]

\* a request as its route handler starts on it
NewRequest(m, sid, body) ==
    [method |-> m, path |-> McpPath, sid |-> sid, body |-> body, pc |-> "route",
     token |-> UndefinedSeq, tokenClaims |-> UndefinedSeq,
     isAuthenticated |-> Undefined,
     transport |-> NoTransport, created |-> FALSE,
     sessionHeader |-> Undefined, chain |-> <<>>]

\* the record of a completed response: the request it answers, what was
\* written, and who wrote it
Response(r, auth, status, payload, by, www) ==
    [method |-> r.method, path |-> r.path, sid |-> r.sid, body |-> r.body,
     auth |-> auth, status |-> status, payload |-> payload, by |-> by, www |-> www,
     sessionHeader |-> r.sessionHeader, transport |-> r.transport,
     created |-> r.created]

NoResponse ==
    Response(NewRequest("GET", Undefined, "none"), UndefinedSeq,
             0, NoBody, "none", NoChallenge)

\* the bag of requests without / with one copy of r
Drop(bag, r) == bag (-) SetToBag({r})
Put(bag, r) == bag (+) SetToBag({r})
InFlight == BagToSet(reqs)

\* nothing observed: the record of a getAuthContext() call names the request
\* whose chain made it, the nesting depth, and the store it returned
NoObservation == [request |-> NewRequest("GET", Undefined, "none"),
                  depth |-> 0, store |-> NoStore]

\* no response is being delivered and no observation is being looked at
\* no close() call to look at; one made on a transport that was open or
\* closed already
NoClose == [transport |-> NoTransport, again |-> FALSE]

Idle == resp = NoResponse /\ observed = NoObservation /\ closeEvent = NoClose

----------------------------------------------------------------------------
(* The requests and responses of the server-sent-events router.            *)

\* an absent field of a frame, an index not taken yet
NoValue == -1

\* one message on the wire: its event name, its data and its id
Frame(event, data, id) == [event |-> event, data |-> data, id |-> id]

\* `: text` a comment line
CommentFrame == Frame("comment", NoValue, NoValue)

\* the request and its response before a route handler has touched them
NewStream(route, accepts, lastEventId) ==
    [route |-> route, accepts |-> accepts, lastEventId |-> lastEventId,
     pc |-> "route", status |-> 0, frames |-> <<>>, i |-> NoValue,
     aborted |-> FALSE, ended |-> FALSE, endedBy |-> "none",
     closed |-> FALSE, closedAt |-> NoValue, timer |-> FALSE]

NoStream == NewStream("none", FALSE, UndefinedSeq)

\* the page before one of its buttons is clicked
NoClient == [state |-> "none"]

\* the password builder before it is called
NoPassword == [pc |-> "none"]

\* the stdio server before it has read a line
NoStdio == [input |-> <<>>, out |-> <<>>, alive |-> TRUE]

Init ==
    /\ stream = NoStream
    /\ server \in Servers
    /\ transports = <<>>
    /\ tobj = <<>>
    /\ mcpServers = IF server = "demo" THEN 0 ELSE 1
    /\ uuids = 0
    /\ reqs = EmptyBag
    /\ known = {}
    /\ resp = NoResponse
    /\ observed = NoObservation
    /\ closeEvent = NoClose
    /\ client = NoClient
    /\ stdio = NoStdio
    /\ password = NoPassword

----------------------------------------------------------------------------
(* requiredAuthMiddleware                                                  *)
\* the bearer token of an Authorization header, or null
BearerToken(authHeader) ==
    IF StartsWith(authHeader, BearerSep)
    THEN Trim(Split(authHeader, BearerSep)[2])
    ELSE UndefinedSeq

\* variant: the token is not sent to the validation service
AuthenticatesUnvalidated(authHeader) == TruthySeq(BearerToken(authHeader))

\* does the middleware reach next()?
Authenticates(authHeader) ==
    /\ TruthySeq(BearerToken(authHeader))
    /\ BearerToken(authHeader) \in ValidTokens

\* variant: req.isAuthenticated is left unset
AttachAuthNoFlag(r, authHeader) ==
    [r EXCEPT !.token = BearerToken(authHeader),
              !.tokenClaims = ClaimsOf(BearerToken(authHeader))]

\* what the middleware attaches to the request before next()
AttachAuth(r, authHeader) ==
    [r EXCEPT !.token = BearerToken(authHeader),
              !.tokenClaims = ClaimsOf(BearerToken(authHeader)),
              !.isAuthenticated = "true"]

\* the request as the route handler of the server receives it: in the auth
\* server app.use('/mcp', requiredAuthMiddleware) has run and called next()
Routed(r, authHeader) ==
    IF server = "auth" THEN AttachAuth(r, authHeader) ELSE r

\* the Authorization headers with which a request reaches a route handler
RoutedAuthHeaders ==
    IF server = "auth" THEN {a \in AuthHeaders : Authenticates(a)}
    ELSE {UndefinedSeq}

\* the middleware rejects the request: 401 with the challenge header; the
\* route handler never runs
RequiredAuthMiddleware ==
    /\ Idle
    /\ server = "auth"
    /\ \E m \in Methods, sid \in SessionHeaders, b \in Bodies, a \in AuthHeaders :
        /\ (m # "POST") => b = "initialize"
        /\ ~Authenticates(a)
        /\ resp' = Response(NewRequest(m, sid, IF m = "POST" THEN b ELSE "none"),
                            a, 401, NoBody, "middleware",
                            WwwAuthenticateResourceMetadata)
    /\ UNCHANGED <<stream, client, stdio, password, closeEvent, server, transports, tobj, mcpServers, uuids, reqs, known, observed>>

----------------------------------------------------------------------------
(* The callbacks the routers hand to the transport, and the SDK contract.  *)

\* variant: the callback does not store the transport
OnSessionInitializedDropped(reg, sessionId, ref) == reg

\* onsessioninitialized: transports[sessionId] = transport
OnSessionInitialized(reg, sessionId, ref) == RefSet(reg, sessionId, ref)

\* variant: onclose leaves the registry entry in place
OnCloseKeep(reg, t) == reg

\* transport.onclose of streamable-http.ts
OnCloseStreamable(reg, t) ==
    IF TruthyStr(t.sessionId) THEN RefDelete(reg, t.sessionId) ELSE reg

\* transport.onclose of the DemoServer
OnCloseDemo(reg, t) ==
    IF TruthyStr(t.sessionId) /\ TruthyRef(RefGet(reg, t.sessionId))
    THEN RefDelete(reg, t.sessionId) ELSE reg

OnClose(reg, t) ==
    IF server = "demo" THEN OnCloseDemo(reg, t) ELSE OnCloseStreamable(reg, t)

\* server.connect(transport)
Connect(t) == [t EXCEPT !.connects = @ + 1]

\* variant: a stateless transport, which takes no session id
SdkInitializeStateless(t, id) == [t EXCEPT !.initialized = TRUE]

\* SDK: an initialize request on a fresh transport draws the session id from
\* sessionIdGenerator and marks the transport initialized
SdkInitialize(t, id) == [t EXCEPT !.sessionId = id, !.initialized = TRUE]

\* variant: the callback is called before the request is validated
SdkRefuseAfterCallback(reg, id, ref) == RefSet(reg, id, ref)

\* SDK: an initialize request whose Accept header lacks a media type is
\* refused with 406 before a session id is drawn and the callback is called
SdkRefuse(reg, id, ref) == reg

\* SDK: close() ends the streams of the transport (and then calls onclose);
\* nothing keeps it from being called on a transport that is closed already
SdkClose(t) == [t EXCEPT !.closed = TRUE, !.sse = FALSE]

----------------------------------------------------------------------------
(* auth-context.ts                                                         *)
\* req.isAuthenticated ?? false
NullishFalse(v) == IF v = Undefined THEN FALSE ELSE v = "true"

\* variant: the context is built without the session id
AuthContextWithoutSession(r) ==
    [token |-> r.token, tokenClaims |-> r.tokenClaims,
     isAuthenticated |-> NullishFalse(r.isAuthenticated), sessionId |-> Undefined]

\* the AuthContext a route handler builds from its request
AuthContextOf(r) ==
    [token |-> r.token, tokenClaims |-> r.tokenClaims,
     isAuthenticated |-> NullishFalse(r.isAuthenticated), sessionId |-> r.sid]

\* authContextStorage.run(context, fn): the store fn's chain starts with
RunWithAuthContext(context) == <<context>>

\* an asynchronous operation created inside a chain captures the store of
\* the operation that creates it
InheritStore(parent) == parent

\* variant: one module-level context shared by all requests being handled
GetSharedContext(chain) ==
    IF InFlight = {} THEN NoStore ELSE (CHOOSE r \in InFlight : TRUE).chain[1]

\* authContextStorage.getStore() inside the innermost operation of a chain
GetAuthContext(chain) == IF chain = <<>> THEN NoStore ELSE chain[Len(chain)]

\* variant: the default outside a scope is "authenticated"
IsAuthenticatedByDefault(store) ==
    IF store = NoStore THEN TRUE ELSE store[1].isAuthenticated

\* isAuthenticated(), getTokenClaims(), getToken(), getSessionId()
IsAuthenticated(store) == IF store = NoStore THEN FALSE ELSE store[1].isAuthenticated
GetTokenClaims(store) == IF store = NoStore THEN UndefinedSeq ELSE store[1].tokenClaims
GetToken(store) == IF store = NoStore THEN UndefinedSeq ELSE store[1].token
GetSessionId(store) == IF store = NoStore THEN Undefined ELSE store[1].sessionId

\* the chain a route handler starts for transport.handleRequest
StartChain(r, withAuth) ==
    IF withAuth THEN <<RunWithAuthContext(AuthContextOf(r))>> ELSE <<>>

----------------------------------------------------------------------------
(* Route handlers.  A request is chosen when its route handler starts: the *)
(* steps before it (body parsing, and in the auth server the middleware    *)
(* that calls next()) touch only the request itself.                       *)

\* the Authorization header a routed request was sent with, up to padding
SentAuth(r) == IF r.token = UndefinedSeq THEN UndefinedSeq ELSE BearerSep \o r.token

\* the response is written and the request is over
Answer(r, auth, status, payload, by) ==
    resp' = Response(r, auth, status, payload, by, NoChallenge)

\* the handler is suspended with its response still open
Suspend(r) == BagCardinality(reqs) < MaxInFlight /\ reqs' = Put(reqs, r)

(* POST /mcp of streamable-http.ts (auth and plain)                        *)
StreamablePost(withAuth) ==
    Idle /\
    \E sid \in SessionHeaders, b \in Bodies, a \in RoutedAuthHeaders :
    LET r == Routed(NewRequest("POST", sid, b), a)
        sessionId == r.sid
        found == RefGet(transports, sessionId)
        rr == [r EXCEPT !.transport = found, !.chain = StartChain(r, withAuth)]
    IN
    /\ IF TruthyStr(sessionId) /\ TruthyRef(found)
       THEN \* reuse the existing transport
            IF found = ProtoMember
            THEN \* transport.handleRequest is not a function
                 /\ Answer(rr, a, 500, ExpressError, "express")
                 /\ UNCHANGED <<transports, tobj, uuids, reqs>>
            ELSE IF r.body = "initialize"
            THEN \* SDK: the transport is initialized already
                 /\ Answer(rr, a, 400, SdkAlreadyInitialized, "transport")
                 /\ UNCHANGED <<transports, tobj, uuids, reqs>>
            ELSE /\ Suspend([rr EXCEPT !.pc = "inflight"])
                 /\ UNCHANGED <<transports, tobj, uuids, resp>>
       ELSE IF ~TruthyStr(sessionId) /\ r.body = "initialize"
       THEN \* new transport, connected, and handleRequest up to the callback
            LET ref == Len(tobj) + 1
                id == randomUUID(uuids + 1)
            IN \E acceptable \in BOOLEAN :
               IF acceptable
               THEN /\ Len(tobj) < MaxTransports
                    /\ uuids' = uuids + 1
                    /\ tobj' = Append(tobj, SdkInitialize(Connect(NewTransport(1)), id))
                    /\ transports' = OnSessionInitialized(transports, id, ref)
                    /\ Suspend([r EXCEPT !.transport = ref, !.created = TRUE,
                                         !.sessionHeader = id,
                                         !.chain = StartChain(r, withAuth),
                                         !.pc = "initialized"])
                    /\ UNCHANGED resp
               ELSE \* the SDK refuses; the transport stays without session
                    /\ Len(tobj) < MaxTransports
                    /\ tobj' = Append(tobj, Connect(NewTransport(1)))
                    /\ transports' = SdkRefuse(transports, id, ref)
                    /\ Answer([r EXCEPT !.transport = ref, !.created = TRUE,
                                        !.chain = StartChain(r, withAuth)],
                              a, 406, SdkNotAcceptable, "transport")
                    /\ UNCHANGED <<uuids, reqs>>
       ELSE /\ Answer(r, a, 400, NoValidSessionIdError, "router")
            /\ UNCHANGED <<transports, tobj, uuids, reqs>>
    /\ UNCHANGED <<stream, client, stdio, password, closeEvent, server, mcpServers, known, observed>>

AuthPost == server = "auth" /\ StreamablePost(TRUE)
PlainPost == server = "plain" /\ StreamablePost(FALSE)

(* handleSessionRequest of streamable-http.ts: GET and DELETE /mcp         *)
StreamableSessionRequest(withAuth) ==
    Idle /\
    \E m \in {"GET", "DELETE"}, sid \in SessionHeaders, a \in RoutedAuthHeaders :
    LET r == Routed(NewRequest(m, sid, "none"), a)
        sessionId == r.sid
        found == RefGet(transports, sessionId)
        rr == [r EXCEPT !.transport = found, !.chain = StartChain(r, withAuth)]
    IN
    /\ IF ~TruthyStr(sessionId) \/ ~TruthyRef(found)
       THEN /\ Answer(r, a, 400, InvalidOrMissingSessionId, "router")
            /\ UNCHANGED <<transports, tobj, reqs>>
       ELSE IF found = ProtoMember
       THEN /\ Answer(rr, a, 500, ExpressError, "express")
            /\ UNCHANGED <<transports, tobj, reqs>>
       ELSE IF r.method = "DELETE"
       THEN \* SDK: close the transport, which runs onclose, and answer 200
            /\ tobj' = [tobj EXCEPT ![found] = SdkClose(@)]
            /\ transports' = OnClose(transports, tobj[found])
            /\ Answer(rr, a, 200, NoBody, "transport")
            /\ UNCHANGED reqs
       ELSE IF tobj[found].sse
       THEN \* SDK: a second standalone stream is refused
            /\ Answer(rr, a, 409, SdkConflict, "transport")
            /\ UNCHANGED <<transports, tobj, reqs>>
       ELSE /\ tobj' = [tobj EXCEPT ![found].sse = TRUE]
            /\ Suspend([rr EXCEPT !.pc = "inflight"])
            /\ UNCHANGED <<transports, resp>>
    /\ UNCHANGED <<stream, client, stdio, password, closeEvent, server, mcpServers, uuids, known, observed>>

AuthSessionRequest == server = "auth" /\ StreamableSessionRequest(TRUE)
PlainSessionRequest == server = "plain" /\ StreamableSessionRequest(FALSE)

----------------------------------------------------------------------------
(* DemoServer: mcp-express-handlers.ts                                     *)
\* the session id mcpPostHandler reads from the headers
DemoSessionId(header) == IF TruthyStr(header) THEN header ELSE Undefined

\* variant: every body passes for an initialize request
AnyRequest(body) == TRUE

\* isInitializeRequest(req.body)
IsInitializeRequest(body) == body = "initialize"

\* variant: getServer() hands out one module-level McpServer
GetSharedServer(count) == 1

\* getServer(): a new McpServer instance
GetServer(count) == count + 1

mcpPostHandler ==
    /\ Idle
    /\ server = "demo"
    /\ \E sid \in SessionHeaders, b \in Bodies :
       LET r == NewRequest("POST", sid, b)
           sessionId == DemoSessionId(r.sid)
           found == RefGet(transports, sessionId)
           rr == [r EXCEPT !.transport = found]
       IN
       IF TruthyStr(sessionId) /\ TruthyRef(found)
       THEN IF found = ProtoMember
            THEN \* TypeError, caught by the handler's catch block
                 /\ Answer(rr, UndefinedSeq, 500, InternalServerError, "router")
                 /\ UNCHANGED <<tobj, mcpServers, reqs>>
            ELSE IF r.body = "initialize"
            THEN /\ Answer(rr, UndefinedSeq, 400, SdkAlreadyInitialized, "transport")
                 /\ UNCHANGED <<tobj, mcpServers, reqs>>
            ELSE /\ Suspend([rr EXCEPT !.pc = "inflight"])
                 /\ UNCHANGED <<tobj, mcpServers, resp>>
       ELSE IF ~TruthyStr(sessionId) /\ IsInitializeRequest(r.body)
       THEN \* new transport and server; suspended in await server.connect
            /\ Len(tobj) < MaxTransports
            /\ mcpServers' = GetServer(mcpServers)
            /\ tobj' = Append(tobj, Connect(NewTransport(GetServer(mcpServers))))
            /\ Suspend([r EXCEPT !.transport = Len(tobj) + 1, !.created = TRUE,
                                 !.pc = "connecting"])
            /\ UNCHANGED resp
       ELSE /\ Answer(r, UndefinedSeq, 400, NoValidSessionIdError, "router")
            /\ UNCHANGED <<tobj, mcpServers, reqs>>
    /\ UNCHANGED <<stream, client, stdio, password, closeEvent, server, transports, uuids, known, observed>>

\* after await server.connect(transport): transport.handleRequest, which
\* runs up to and including the onsessioninitialized callback
mcpPostHandlerConnected(r) ==
    /\ Idle
    /\ r \in InFlight
    /\ r.pc = "connecting"
    /\ LET id == randomUUID(uuids + 1)
       IN \E acceptable \in BOOLEAN :
          IF acceptable
          THEN /\ uuids' = uuids + 1
               /\ tobj' = [tobj EXCEPT ![r.transport] = SdkInitialize(@, id)]
               /\ transports' = OnSessionInitialized(transports, id, r.transport)
               /\ reqs' = Put(Drop(reqs, r), [r EXCEPT !.pc = "initialized"])
               /\ UNCHANGED resp
          ELSE \* the SDK refuses; the transport stays without session
               /\ transports' = SdkRefuse(transports, id, r.transport)
               /\ Answer(r, UndefinedSeq, 406, SdkNotAcceptable, "transport")
               /\ reqs' = Drop(reqs, r)
               /\ UNCHANGED <<tobj, uuids>>
    /\ UNCHANGED <<stream, client, stdio, password, closeEvent, server, mcpServers, known, observed>>

mcpGetHandler ==
    /\ Idle
    /\ server = "demo"
    /\ \E sid \in SessionHeaders :
       LET r == NewRequest("GET", sid, "none")
           sessionId == r.sid
           found == RefGet(transports, sessionId)
           rr == [r EXCEPT !.transport = found]
       IN
       IF ~TruthyStr(sessionId) \/ ~TruthyRef(found)
       THEN /\ Answer(r, UndefinedSeq, 400, InvalidOrMissingSessionId, "router")
            /\ UNCHANGED <<tobj, reqs>>
       ELSE IF found = ProtoMember
       THEN \* TypeError; this handler has no catch block
            /\ Answer(rr, UndefinedSeq, 500, ExpressError, "express")
            /\ UNCHANGED <<tobj, reqs>>
       ELSE IF tobj[found].sse
       THEN /\ Answer(rr, UndefinedSeq, 409, SdkConflict, "transport")
            /\ UNCHANGED <<tobj, reqs>>
       ELSE /\ tobj' = [tobj EXCEPT ![found].sse = TRUE]
            /\ Suspend([rr EXCEPT !.pc = "inflight"])
            /\ UNCHANGED resp
    /\ UNCHANGED <<stream, client, stdio, password, closeEvent, server, transports, mcpServers, uuids, known, observed>>

mcpMethodNotAllowedHandler ==
    /\ Idle
    /\ server = "demo"
    /\ \E sid \in SessionHeaders :
         Answer(NewRequest("DELETE", sid, "none"), UndefinedSeq,
                405, MethodNotAllowedError, "router")
    /\ UNCHANGED <<stream, client, stdio, password, closeEvent, server, transports, tobj, mcpServers, uuids, reqs, known, observed>>

----------------------------------------------------------------------------
(* The routes outside POST, GET and DELETE /mcp, and the order in which     *)
(* Express consults them.                                                  *)

\* app.get(path, handler), app.use(path, handler)
Layer(kind, path, handler) == [kind |-> kind, path |-> path, handler |-> handler]

\* the GET routes and the path-mounted middleware of the 4-auth and of the
\* plain streamable-http server, in the order of their registration
Layers ==
    IF server = "auth"
    THEN << Layer("get", WellKnown \o ResourceId, "handleOAuthProtectedResource"),
            Layer("get", ResourceId \o WellKnown, "handleOAuthProtectedResource"),
            Layer("get", HealthPath, "health"),
            Layer("use", McpPath, "requiredAuthMiddleware"),
            Layer("get", McpPath, "handleSessionRequest") >>
    ELSE << Layer("get", McpPath, "handleSessionRequest"),
            Layer("get", HealthPath, "health") >>

\* a route matches its path, a mounted middleware every path under its own
Matches(layer, path) ==
    IF layer.kind = "use" THEN StartsWith(path, layer.path)
    ELSE path = layer.path

\* variant: the mounted middleware is consulted before every route, as if
\* app.use had been called first
FirstLayerMiddleware(layers, path, from) ==
    LET all == {n \in from..Len(layers) : Matches(layers[n], path)}
        use == {n \in all : layers[n].kind = "use"}
        first(S) == CHOOSE n \in S : \A o \in S : n <= o
    IN IF use # {} THEN first(use) ELSE IF all # {} THEN first(all) ELSE 0

\* Express: the first layer at or after `from` that matches; 0 when none does
RECURSIVE FirstLayer(_, _, _)
FirstLayer(layers, path, from) ==
    IF from > Len(layers) THEN 0
    ELSE IF Matches(layers[from], path) THEN from
    ELSE FirstLayer(layers, path, from + 1)

\* the Authorization headers tried on the public routes: none, another
\* scheme, a token the validation service rejects, a valid token
PublicAuthHeaders ==
    IF server = "auth"
    THEN {UndefinedSeq, AuthBasic, BearerSep \o <<"x">>, BearerSep \o <<"a">>}
    ELSE {UndefinedSeq}

\* GET /health and GET of the two discovery paths
publicGet ==
    /\ Idle
    /\ server \in {"auth", "plain"}
    /\ \E path \in PublicPaths, a \in PublicAuthHeaders :
         LET r == [NewRequest("GET", Undefined, "none") EXCEPT !.path = path]
             n == FirstLayer(Layers, path, 1)
             guarded == n # 0 /\ Layers[n].kind = "use"
             \* next() of the middleware goes on with the layers after it
             m == IF guarded THEN FirstLayer(Layers, path, n + 1) ELSE n
             handler == IF m = 0 THEN "none" ELSE Layers[m].handler
         IN IF guarded /\ ~Authenticates(a)
            THEN resp' = Response(r, a, 401, NoBody, "middleware",
                                  WwwAuthenticateResourceMetadata)
            ELSE IF handler = "health"
            THEN Answer(r, a, 200, HealthBody(KeyCount(transports)), "health")
            ELSE IF handler = "handleOAuthProtectedResource"
            THEN Answer(r, a, 200, ProtectedResourceMetadata, "discovery")
            ELSE Answer(r, a, 404, ExpressNotFound, "express")
    /\ UNCHANGED <<stream, client, stdio, password, closeEvent, server, transports, tobj, mcpServers, uuids, reqs, known, observed>>

----------------------------------------------------------------------------
(* The SDK transport, after the route handler has called handleRequest.    *)

\* the initialize response: writeHead with the Mcp-Session-Id header, then
\* the result; the client now knows the session id
FlushInitialize(r) ==
    /\ Idle
    /\ r \in InFlight
    /\ r.pc = "initialized"
    /\ LET id == tobj[r.transport].sessionId
       IN /\ known' = known \cup {id}
          /\ Answer([r EXCEPT !.sessionHeader = id], SentAuth(r),
                    200, SdkResult, "transport")
          /\ reqs' = Drop(reqs, r)
    /\ UNCHANGED <<stream, client, stdio, password, closeEvent, server, transports, tobj, mcpServers, uuids, observed>>

\* the chain after d further nested asynchronous operations
RECURSIVE Nest(_, _)
Nest(chain, d) ==
    IF d = 0 THEN chain
    ELSE Nest(Append(chain, InheritStore(GetAuthContext(chain))), d - 1)

\* a tool handler or another asynchronous operation nested d deep in the
\* chain of an in-flight request (the initialize request that creates the
\* session included) runs and calls getAuthContext()
NestedAsync(r) ==
    /\ Idle
    /\ server = "auth"
    /\ r \in InFlight
    /\ r.pc \in {"inflight", "initialized"}
    /\ \E d \in 1..MaxNested :
         observed' = [request |-> r, depth |-> d,
                      store |-> GetAuthContext(Nest(r.chain, d))]
    /\ UNCHANGED <<stream, client, stdio, password, closeEvent, server, transports, tobj, mcpServers, uuids, reqs, known, resp>>

\* the chain of code that no runWithAuthContext call started: the route
\* handler around its run() call, a timer or callback set up outside
OutsideChain == <<>>

\* code outside every scope calls getAuthContext(), before, while or after
\* the chains of requests run
OutsideScope ==
    /\ Idle
    /\ server = "auth"
    /\ observed' = [request |-> NewRequest("GET", Undefined, "outside"),
                    depth |-> 0, store |-> GetAuthContext(OutsideChain)]
    /\ UNCHANGED <<stream, client, stdio, password, closeEvent, server, transports, tobj, mcpServers, uuids, reqs, known, resp>>

\* the response of an in-flight request ends (result sent, or the stream of
\* a GET is closed)
Complete(r) ==
    /\ Idle
    /\ r \in InFlight
    /\ r.pc = "inflight"
    /\ tobj' = IF r.method = "GET"
               THEN [tobj EXCEPT ![r.transport].sse = FALSE]
               ELSE tobj
    /\ Answer(r, SentAuth(r), 200, SdkResult, "transport")
    /\ reqs' = Drop(reqs, r)
    /\ UNCHANGED <<stream, client, stdio, password, closeEvent, server, transports, mcpServers, uuids, known, observed>>

\* the transport of a session is closed from the server side, be it open or
\* closed already (by a DELETE or by an earlier close)
TransportClose(ref) ==
    /\ Idle
    /\ ref \in 1..Len(tobj)
    /\ tobj[ref].initialized
    /\ tobj' = [tobj EXCEPT ![ref] = SdkClose(@)]
    /\ transports' = OnClose(transports, tobj[ref])
    /\ closeEvent' = [transport |-> ref, again |-> tobj[ref].closed]
    /\ UNCHANGED <<stream, client, stdio, password, server, mcpServers, uuids, reqs, known, resp, observed>>

\* the client has read the response
Deliver ==
    /\ ~Idle
    /\ resp' = NoResponse
    /\ observed' = NoObservation
    /\ closeEvent' = NoClose
    /\ UNCHANGED <<stream, client, stdio, password, server, transports, tobj, mcpServers, uuids, reqs, known>>

----------------------------------------------------------------------------
Next ==
    \/ RequiredAuthMiddleware
    \/ AuthPost
    \/ PlainPost
    \/ AuthSessionRequest
    \/ PlainSessionRequest
    \/ mcpPostHandler
    \/ mcpGetHandler
    \/ mcpMethodNotAllowedHandler
    \/ publicGet
    \/ \E r \in InFlight : mcpPostHandlerConnected(r)
    \/ \E r \in InFlight : FlushInitialize(r)
    \/ \E r \in InFlight : NestedAsync(r)
    \/ OutsideScope
    \/ \E r \in InFlight : Complete(r)
    \/ \E ref \in 1..MaxTransports : TransportClose(ref)
    \/ Deliver

Spec == Init /\ [][Next]_vars

----------------------------------------------------------------------------
(* The server-sent-events router: server-sent-events.ts.  One behaviour of *)
(* SseSpec is one request to one of its three routes.                      *)

\* the loop bound of the three routes, and the event after which
\* /custom-events-with-id simulates an error
NumEvents == 10
SimulatedErrorAt == 5

DigitChars == <<"0", "1", "2", "3", "4", "5", "6", "7", "8", "9">>
IsDigit(c) == \E d \in 1..10 : DigitChars[d] = c
DigitValue(c) == (CHOOSE d \in 1..10 : DigitChars[d] = c) - 1

\* `${i}` for a non-negative i
RECURSIVE NumberToString(_)
NumberToString(n) ==
    IF n < 10 THEN <<DigitChars[n + 1]>>
    ELSE NumberToString(n \div 10) \o <<DigitChars[(n % 10) + 1]>>

\* the value of the longest prefix of decimal digits of s, after acc
RECURSIVE DigitsValue(_, _)
DigitsValue(s, acc) ==
    IF s = <<>> \/ ~IsDigit(Head(s)) THEN acc
    ELSE DigitsValue(Tail(s), 10 * acc + DigitValue(Head(s)))

\* leading white space removed
RECURSIVE TrimStart(_)
TrimStart(s) ==
    IF s # <<>> /\ Head(s) = " " THEN TrimStart(Tail(s)) ELSE s

\* parseInt(s, 10): white space, an optional sign, then the longest prefix of
\* digits; NaN when there is no digit
ParseInt(s) ==
    LET t == TrimStart(s)
        signed == t # <<>> /\ Head(t) \in {"-", "+"}
        digits == IF signed THEN Tail(t) ELSE t
        sign == IF signed /\ Head(t) = "-" THEN -1 ELSE 1
    IN IF digits = <<>> \/ ~IsDigit(Head(digits))
       THEN [nan |-> TRUE, value |-> 0]
       ELSE [nan |-> FALSE, value |-> sign * DigitsValue(digits, 0)]

\* variant: the resumed stream starts with the event the client has seen
StartIndexResend(lastEventId) ==
    IF TruthySeq(lastEventId)
    THEN LET parsed == ParseInt(lastEventId)
         IN IF parsed.nan \/ parsed.value < 0
            THEN [i |-> 0, invalid |-> TRUE]
            ELSE [i |-> parsed.value, invalid |-> FALSE]
    ELSE [i |-> 0, invalid |-> FALSE]

\* variant: a negative Last-Event-Id is taken as it is
StartIndexUnsigned(lastEventId) ==
    IF TruthySeq(lastEventId)
    THEN LET parsed == ParseInt(lastEventId)
         IN IF parsed.nan
            THEN [i |-> 0, invalid |-> TRUE]
            ELSE [i |-> parsed.value + 1, invalid |-> FALSE]
    ELSE [i |-> 0, invalid |-> FALSE]

\* the index /custom-events-with-id starts its loop with, and whether it has
\* found the Last-Event-Id header invalid
StartIndex(lastEventId) ==
    IF TruthySeq(lastEventId)
    THEN LET parsed == ParseInt(lastEventId)
         IN IF parsed.nan \/ parsed.value < 0
            THEN [i |-> 0, invalid |-> TRUE]
            ELSE [i |-> parsed.value + 1, invalid |-> FALSE]
    ELSE [i |-> 0, invalid |-> FALSE]

SseRoutes == {"data-only", "custom-events", "custom-events-with-id"}

\* Last-Event-Id headers: none, empty, not a number, negative, a number with
\* a tail, an id beyond the stream, and the ids the server sends
LastEventIds ==
    { UndefinedSeq, <<>>, <<"a", "b", "c">>, <<"-", "3">>, <<"7", "x">>,
      NumberToString(12) }
    \cup { NumberToString(k) : k \in 0..(NumEvents - 1) }

\* i % 2 === 0 ? "even" : "odd"
Parity(i) == IF i % 2 = 0 THEN "even" ELSE "odd"

\* the message a route writes for index i
EventFrame(route, i) ==
    IF route = "data-only" THEN Frame("message", i, NoValue)
    ELSE IF route = "custom-events" THEN Frame(Parity(i), i, NoValue)
    ELSE Frame(Parity(i), i, i)

\* `data\n\n` of /data-only and `event: eom\ndata\n\n` of the other routes
EmptyDataFrame == Frame("message", NoValue, NoValue)
EomFrame == Frame("eom", NoValue, NoValue)

\* response.write(frame)
Write(s, frame) == [s EXCEPT !.frames = Append(@, frame)]

\* variant: the stream is ended without a marker
EndOfStreamUnmarked(route, i, aborted) == <<>>

\* what a route writes between its loop and response.end()
EndOfStream(route, i, aborted) ==
    IF route = "data-only" THEN <<EmptyDataFrame>>
    ELSE IF route = "custom-events"
    THEN IF ~aborted THEN <<EomFrame>> ELSE <<>>
    ELSE IF i = NumEvents /\ ~aborted THEN <<EomFrame>> ELSE <<>>

\* response.end(), by the handler or by cleanup
End(s, by) ==
    [s EXCEPT !.ended = TRUE, !.endedBy = IF s.ended THEN @ ELSE by]

\* the code after the loop: the marker, then response.end()
Finish(s) ==
    LET w == [s EXCEPT !.frames = @ \o EndOfStream(s.route, s.i, s.aborted)]
    IN [End(w, "handler") EXCEPT !.pc = "done"]

\* sleep(1000): a timer is set and the handler is suspended
Sleep(s) == [s EXCEPT !.pc = "sleeping", !.timer = TRUE]

\* the head of the loop: its condition and, in the routes that have it, the
\* first `if (aborted) break` (/data-only has no such flag: it stays FALSE)
LoopHead(s) ==
    IF s.i < NumEvents /\ ~s.aborted THEN Sleep(s) ELSE Finish(s)

\* the loop body after the await
AfterSleep(s) ==
    IF s.aborted THEN Finish(s)
    ELSE LET w == Write(s, EventFrame(s.route, s.i))
         IN IF w.route = "custom-events-with-id" /\ w.i = SimulatedErrorAt
            THEN Finish(w)
            ELSE LoopHead([w EXCEPT !.i = @ + 1])

\* cleanup() of the close handler
Cleanup(s) ==
    LET a == [s EXCEPT !.aborted = TRUE]
    IN IF ~a.ended THEN End(a, "cleanup") ELSE a

\* response.status(406).send('Not Acceptable')
NotAcceptable(s) == [s EXCEPT !.status = 406, !.ended = TRUE,
                              !.endedBy = "handler", !.pc = "done"]

\* router.get("/data-only") up to its first await
dataOnly ==
    /\ stream = NoStream
    /\ \E accepts \in BOOLEAN, lastEventId \in LastEventIds :
         LET s == NewStream("data-only", accepts, lastEventId)
             h == Write([s EXCEPT !.status = 200, !.i = 0], CommentFrame)
         IN stream' = LoopHead(h)
    /\ UNCHANGED <<sessionVars, client, stdio, password>>

\* router.get("/custom-events") up to its first await
customEvents ==
    /\ stream = NoStream
    /\ \E accepts \in BOOLEAN, lastEventId \in LastEventIds :
         LET s == NewStream("custom-events", accepts, lastEventId)
         IN stream' = IF ~s.accepts THEN NotAcceptable(s)
                      ELSE LoopHead([s EXCEPT !.status = 200, !.i = 0])
    /\ UNCHANGED <<sessionVars, client, stdio, password>>

\* the handler of /custom-events-with-id up to its first await, for the
\* request s
WithIdStart(s) ==
    LET start == StartIndex(s.lastEventId)
        h == [s EXCEPT !.status = 200, !.i = start.i]
    IN IF ~s.accepts THEN NotAcceptable(s)
       ELSE LoopHead(IF start.invalid THEN Write(h, CommentFrame) ELSE h)

\* router.get("/custom-events-with-id") up to its first await
customEventsWithId ==
    /\ stream = NoStream
    /\ \E accepts \in BOOLEAN, lastEventId \in LastEventIds :
         stream' = WithIdStart(NewStream("custom-events-with-id", accepts,
                                         lastEventId))
    /\ UNCHANGED <<sessionVars, client, stdio, password>>

\* the timer of sleep() fires and the handler runs to its next await or to
\* its end
SleepElapsed ==
    /\ stream.pc = "sleeping"
    /\ stream.timer
    /\ stream' = AfterSleep([stream EXCEPT !.timer = FALSE])
    /\ UNCHANGED <<sessionVars, client, stdio, password>>

\* the client goes away while the response is open: 'close' is emitted on
\* the response; /data-only has registered no handler for it
ClientDisconnect ==
    /\ stream.pc = "sleeping"
    /\ ~stream.closed
    /\ LET c == [stream EXCEPT !.closed = TRUE, !.closedAt = Len(stream.frames)]
       IN stream' = IF c.route = "data-only" THEN c ELSE Cleanup(c)
    /\ UNCHANGED <<sessionVars, client, stdio, password>>

SseInit ==
    /\ stream = NoStream
    /\ server = "sse"
    /\ transports = <<>>
    /\ tobj = <<>>
    /\ mcpServers = 0
    /\ uuids = 0
    /\ reqs = EmptyBag
    /\ known = {}
    /\ resp = NoResponse
    /\ observed = NoObservation
    /\ closeEvent = NoClose
    /\ client = NoClient
    /\ stdio = NoStdio
    /\ password = NoPassword

SseNext ==
    \/ dataOnly
    \/ customEvents
    \/ customEventsWithId
    \/ SleepElapsed
    \/ ClientDisconnect

SseSpec == SseInit /\ [][SseNext]_vars

----------------------------------------------------------------------------
(* The page's EventSource on /sse/custom-events-with-id: index.js.  It has *)
(* no error listener, so the browser reconnects whenever the response ends *)
(* and sends the id of the last event it has dispatched; only the eom      *)
(* listener closes it.  One behaviour of ReconnectSpec is one click.       *)

MaxCursor == 12   \* the largest id an EventSource starts with

\* the last event id an EventSource starts with: none for the page's own,
\* and the ids a client that resumes an earlier stream may hold
Cursors == {UndefinedSeq} \cup { NumberToString(k) : k \in 0..MaxCursor }

\* new EventSource(url), holding cursor as its last event id; `output` is
\* the text of the output element, one entry for each line with the cursor
\* of the request that brought it
NewEventSource(cursor) ==
    [state |-> "connecting", start |-> cursor, lastEventId |-> cursor,
     requested |-> cursor, output |-> <<>>, seen |-> 0]

\* variant: the EventSource does not keep the id of an event
OnFrameNoCursor(c, frame) ==
    IF frame.event = "comment" THEN c
    ELSE IF frame.event = "eom" THEN [c EXCEPT !.state = "stopped"]
    ELSE [c EXCEPT !.output = Append(@, [value |-> frame.data,
                                          cursor |-> c.requested])]

\* the EventSource takes one message off the wire: a comment is dropped, the
\* id of an event becomes the last event id, and the listener of the
\* event's name runs: "even" and "odd" add a line, "eom" closes
OnFrame(c, frame) ==
    IF frame.event = "comment" THEN c
    ELSE LET d == IF frame.id = NoValue THEN c
                  ELSE [c EXCEPT !.lastEventId = NumberToString(frame.id)]
         IN IF frame.event = "eom" THEN [d EXCEPT !.state = "stopped"]
            ELSE [d EXCEPT !.output = Append(@, [value |-> frame.data,
                                                  cursor |-> c.requested])]

\* the click on the button creates the EventSource
sseCustomEventsId ==
    /\ client.state = "none"
    /\ stream = NoStream
    /\ \E cursor \in Cursors : client' = NewEventSource(cursor)
    /\ UNCHANGED <<sessionVars, stream, stdio, password>>

\* the EventSource sends its request, with Accept: text/event-stream and its
\* last event id, and the route handler runs up to its first await
EventSourceRequest ==
    /\ client.state = "connecting"
    /\ stream = NoStream
    /\ stream' = WithIdStart(NewStream("custom-events-with-id", TRUE,
                                       client.lastEventId))
    /\ client' = [client EXCEPT !.state = "open", !.seen = 0,
                                !.requested = client.lastEventId]
    /\ UNCHANGED <<sessionVars, stdio, password>>

\* the next message of the response reaches the EventSource
Dispatch ==
    /\ client.state = "open"
    /\ client.seen < Len(stream.frames)
    /\ client' = OnFrame([client EXCEPT !.seen = @ + 1],
                         stream.frames[client.seen + 1])
    /\ UNCHANGED <<sessionVars, stream, stdio, password>>

\* the response has ended and the EventSource is still open: it reconnects
Reconnect ==
    /\ client.state = "open"
    /\ stream.ended
    /\ client.seen = Len(stream.frames)
    /\ client' = [client EXCEPT !.state = "connecting"]
    /\ stream' = NoStream
    /\ UNCHANGED <<sessionVars, stdio, password>>

ReconnectNext ==
    \/ sseCustomEventsId
    \/ EventSourceRequest
    \/ SleepElapsed
    \/ Dispatch
    \/ Reconnect

ReconnectSpec == SseInit /\ [][ReconnectNext]_vars

\* timers fire, the network delivers, and the browser retries after its
\* reconnection time
ReconnectFairSpec ==
    /\ ReconnectSpec
    /\ WF_vars(EventSourceRequest)
    /\ WF_vars(SleepElapsed)
    /\ WF_vars(Dispatch)
    /\ WF_vars(Reconnect)

----------------------------------------------------------------------------
(* The stdio server without SDK: server-no-sdk.ts.  A line is a sequence   *)
(* of characters; the members of a JSON object are written as one element  *)
(* each.                                                                   *)

MaxLines == 3   \* lines read in one behaviour

\* the members the lines are made of: their key and their value
Members ==
    [ m \in {"method:initialize", "method:tools/list", "method:tools/call",
             "method:ping", "id:1", "id:2", "name:pony_password", "name:other"} |->
      CASE m = "method:initialize" -> <<"method", "initialize">>
        [] m = "method:tools/list" -> <<"method", "tools/list">>
        [] m = "method:tools/call" -> <<"method", "tools/call">>
        [] m = "method:ping" -> <<"method", "ping">>
        [] m = "id:1" -> <<"id", "1">>
        [] m = "id:2" -> <<"id", "2">>
        [] m = "name:pony_password" -> <<"name", "pony_password">>
        [] OTHER -> <<"name", "other">> ]

\* the lines a client may write
Lines ==
    { <<>>, <<" ", " ">>,                                 \* blank
      <<"{">>, <<"{", "id:1">>, <<"h", "i">>,             \* no JSON
      <<"{", "method:initialize", "id:1", "x">>,          \* no JSON
      <<"n", "u", "l", "l">>, <<"4", "2">>,               \* JSON, but no object
      <<"{", "}">>,
      <<"{", "method:initialize", "id:1", "}">>,
      <<" ", "{", "method:tools/list", "id:2", "}">>,
      <<"{", "method:tools/call", "id:1", "name:pony_password", "}">>,
      <<"{", "method:tools/call", "id:2", "name:other", "}">>,
      <<"{", "method:ping", "id:1", "}">>,
      <<"{", "method:tools/list", "}">> }

\* what JSON.parse throws, and the values that are no objects
SyntaxError == [kind |-> "SyntaxError"]
JsonNull == [kind |-> "null"]
JsonNumber == [kind |-> "number"]

\* the value of member `key` of an object text, Undefined when it has none
MemberOf(text, key) ==
    LET at == {n \in 2..(Len(text) - 1) : Members[text[n]][1] = key}
    IN IF at = {} THEN Undefined
       ELSE Members[text[CHOOSE n \in at : \A o \in at : o <= n]][2]

\* JSON.parse(line): white space around the value is skipped
JsonParse(line) ==
    LET text == Trim(line)
    IN IF text = <<"n", "u", "l", "l">> THEN JsonNull
       ELSE IF text # <<>> /\ \A n \in 1..Len(text) : IsDigit(text[n])
       THEN JsonNumber
       ELSE IF /\ Len(text) >= 2 /\ text[1] = "{" /\ text[Len(text)] = "}"
               /\ \A n \in 2..(Len(text) - 1) : text[n] \in DOMAIN Members
       THEN [kind |-> "object", method |-> MemberOf(text, "method"),
             id |-> MemberOf(text, "id"), name |-> MemberOf(text, "name")]
       ELSE SyntaxError

\* the frames the server writes
ResultFrame(id, result) == [id |-> id, result |-> result, error |-> 0]
ErrorFrame(id, code) == [id |-> id, result |-> "none", error |-> code]
ParseError == ErrorFrame("null", -32700)

\* send(obj)
Send(s, frame) == [s EXCEPT !.out = Append(@, frame)]

\* handleInitialize, handleToolsList, handleToolsCall
HandleInitialize(s, id) == Send(s, ResultFrame(id, "initialize"))
HandleToolsList(s, id) == Send(s, ResultFrame(id, "tools"))
HandleToolsCall(s, id, name) ==
    IF name # "pony_password" THEN Send(s, ErrorFrame(id, -32601))
    ELSE Send(s, ResultFrame(id, "password"))

\* an exception nothing catches ends the process
Crash(s) == [s EXCEPT !.alive = FALSE]

\* variant: a line that is no JSON ends the server after its error frame
OnLineFatal(s, line) ==
    IF Trim(line) = <<>> THEN s
    ELSE LET msg == JsonParse(line)
         IN IF msg = SyntaxError THEN Crash(Send(s, ParseError))
            ELSE IF msg.kind = "null" THEN Crash(s)
            ELSE IF msg.kind = "number" THEN s
            ELSE IF msg.method = "initialize" THEN HandleInitialize(s, msg.id)
            ELSE IF msg.method = "tools/list" THEN HandleToolsList(s, msg.id)
            ELSE IF msg.method = "tools/call"
            THEN HandleToolsCall(s, msg.id, msg.name)
            ELSE s

\* rl.on("line", ...): the listener for one line
OnLine(s, line) ==
    IF Trim(line) = <<>> THEN s
    ELSE LET msg == JsonParse(line)
         IN IF msg = SyntaxError THEN Send(s, ParseError)
            \* msg.method of null throws a TypeError
            ELSE IF msg.kind = "null" THEN Crash(s)
            \* a number has no member `method`
            ELSE IF msg.kind = "number" THEN s
            ELSE IF msg.method = "initialize" THEN HandleInitialize(s, msg.id)
            ELSE IF msg.method = "tools/list" THEN HandleToolsList(s, msg.id)
            ELSE IF msg.method = "tools/call"
            THEN HandleToolsCall(s, msg.id, msg.name)
            ELSE s

\* the client writes a line and the server reads it
ReadLine ==
    /\ stdio.alive
    /\ Len(stdio.input) < MaxLines
    /\ \E line \in Lines :
         stdio' = OnLine([stdio EXCEPT !.input = Append(@, line)], line)
    /\ UNCHANGED <<sessionVars, stream, client, password>>

StdioInit ==
    /\ stdio = NoStdio
    /\ password = NoPassword
    /\ stream = NoStream
    /\ client = NoClient
    /\ server = "stdio"
    /\ transports = <<>>
    /\ tobj = <<>>
    /\ mcpServers = 0
    /\ uuids = 0
    /\ reqs = EmptyBag
    /\ known = {}
    /\ resp = NoResponse
    /\ observed = NoObservation
    /\ closeEvent = NoClose

StdioNext == ReadLine

StdioSpec == StdioInit /\ [][StdioNext]_vars

----------------------------------------------------------------------------
(* The password builders: password.ts and renderFragment of ponies.ts.  A  *)
(* string is a sequence of characters.  Math.random() is a choice; one     *)
(* behaviour of PasswordSpec is one call of one of the two functions.      *)

MaxMinLength == 4   \* the largest minLength buildPassword is called with
MaxLength == 9      \* the largest length buildPasswordAdvanced is called with
ToolMinLength == 8  \* z.number().int().min(8) of pony_password_advanced

\* { first, last? }
Pony(first, last) == [first |-> first, last |-> last]

\* the lists of ponies the loader can return (every first name is a word),
\* and the other lists the exported functions accept: the empty list and
\* lists with empty names
LoadedPonies ==
    { << Pony(<<"R", "o">>, <<"s", "e">>) >>,
      << Pony(<<"P", "i">>, UndefinedSeq), Pony(<<"I">>, <<"o", " ", "E">>) >> }
OtherPonies ==
    { <<>>,
      << Pony(<<>>, UndefinedSeq) >>,
      << Pony(<<>>, <<"S">>) >>,
      << Pony(<<>>, UndefinedSeq), Pony(<<"P", "i">>, UndefinedSeq) >> }

\* the length of the longest of these lists
MaxPonies ==
    CHOOSE n \in {Len(ponies) : ponies \in LoadedPonies \cup OtherPonies} :
        \A ponies \in LoadedPonies \cup OtherPonies : Len(ponies) <= n

MODES == {"full", "first", "last"}

\* s.replace(/[...]/g, c) for the set of characters `from`
ReplaceAll(s, from, c) ==
    [k \in 1..Len(s) |-> IF s[k] \in from THEN c ELSE s[k]]

\* substitutions(s)
substitutions(s) ==
    ReplaceAll(ReplaceAll(ReplaceAll(ReplaceAll(s, {"o", "O"}, "0"),
                                     {"i", "I"}, "!"),
                          {"e", "E"}, "€"),
               {"s", "S"}, "$")

\* renderFragment(p, mode)
renderFragment(p, mode) ==
    LET f == p.first
        l == IF p.last = UndefinedSeq THEN <<>> ELSE p.last
    IN IF mode = "first" THEN f
       ELSE IF mode = "last" THEN (IF l # <<>> THEN l ELSE f)
       ELSE IF l # <<>> THEN f \o SelectSeq(l, LAMBDA c : c # " ") ELSE f

\* char.toUpperCase() for the letters of the names above
ToUpperCase(c) ==
    CASE c = "o" -> "O" [] c = "i" -> "I" [] c = "e" -> "E" [] c = "s" -> "S"
      [] OTHER -> c

\* applyCaseVariation(str, includeUppercase): mask[k] is the outcome of
\* Math.random() > 0.5 for character k
applyCaseVariation(str, includeUppercase, mask) ==
    IF ~includeUppercase THEN str
    ELSE [k \in 1..Len(str) |-> IF mask[k] THEN ToUpperCase(str[k]) ELSE str[k]]

\* some of the values of randomNumber(2) and of randomChar(SYMBOLS)
TwoDigitNumbers == {10, 57, 99}
SYMBOLS == {"!", "$", "?"}

\* variant: nothing is set aside for the digits and the symbol
PonySpaceUnreserved(length, reservedSpace) ==
    IF length >= 5 THEN length ELSE 5

\* Math.max(5, length - reservedSpace)
PonySpace(length, reservedSpace) ==
    IF length - reservedSpace >= 5 THEN length - reservedSpace ELSE 5

\* s.substring(0, n) for n >= 0
Substring(s, n) == SubSeq(s, 1, IF n < Len(s) THEN n ELSE Len(s))

\* buildPassword(opts, ponies) is called
buildPassword ==
    /\ password.pc = "none"
    /\ \E minLength \in 1..MaxMinLength, special \in BOOLEAN,
          ponies \in LoadedPonies \cup OtherPonies :
         password' = [fn |-> "buildPassword", pc |-> "loop",
                      minLength |-> minLength, special |-> special,
                      ponies |-> ponies, out |-> <<>>, turn |-> FALSE,
                      result |-> <<>>]
    /\ UNCHANGED <<sessionVars, stream, client, stdio>>

\* the loop of buildPassword: its test, and one run of its body or the
\* return statement; `turn` tells one run of the body from the next
buildPasswordLoop ==
    /\ password.pc = "loop"
    /\ IF Len(password.out) < password.minLength /\ Len(password.ponies) > 0
       THEN \E k \in 1..Len(password.ponies), mode \in MODES :
              LET frag == renderFragment(password.ponies[k], mode)
              IN password' = [password EXCEPT
                                !.turn = ~@,
                                !.out = IF frag = <<>> THEN @ ELSE @ \o frag]
       ELSE password' = [password EXCEPT
                           !.pc = "done",
                           !.result = IF password.special
                                      THEN substitutions(password.out)
                                      ELSE password.out]
    /\ UNCHANGED <<sessionVars, stream, client, stdio>>

\* buildPasswordAdvanced(opts, ponies) is called by pony_password_advanced,
\* with a length of its range and ponies of the loader; the composition
\* list bears neither on the result nor on its length and is left out
buildPasswordAdvanced ==
    /\ password.pc = "none"
    /\ \E length \in ToolMinLength..MaxLength, ponies \in LoadedPonies,
          includeNumbers \in BOOLEAN, includeSymbols \in BOOLEAN,
          includeUppercase \in BOOLEAN :
         LET reservedSpace == (IF includeNumbers THEN 2 ELSE 0)
                              + (IF includeSymbols THEN 1 ELSE 0)
             ponySpace == PonySpace(length, reservedSpace)
         IN password' = [fn |-> "buildPasswordAdvanced",
                         pc |-> IF 0 < ponySpace THEN "step1" ELSE "step2",
                         length |-> length, includeNumbers |-> includeNumbers,
                         includeSymbols |-> includeSymbols,
                         includeUppercase |-> includeUppercase,
                         ponies |-> ponies, ponySpace |-> ponySpace,
                         result |-> <<>>, numbers |-> <<>>, symbol |-> "",
                         metadata |-> [length |-> 0]]
    /\ UNCHANGED <<sessionVars, stream, client, stdio>>

\* STEP 1: one run of the body of the first loop, and the test after it
AdvancedStep1 ==
    /\ password.pc = "step1"
    /\ \E k \in 1..Len(password.ponies), mode \in MODES :
         LET raw == renderFragment(password.ponies[k], mode)
         IN \E mask \in [1..Len(raw) -> BOOLEAN] :
            LET fragment == applyCaseVariation(raw, password.includeUppercase, mask)
                remainingSpace == password.ponySpace - Len(password.result)
            IN IF Len(password.result) + Len(fragment) <= password.ponySpace
               THEN LET r == password.result \o fragment
                    IN password' = [password EXCEPT
                                      !.result = r,
                                      !.pc = IF Len(r) < password.ponySpace
                                             THEN "step1" ELSE "step2"]
               ELSE password' = [password EXCEPT
                                   !.result = @ \o Substring(fragment, remainingSpace),
                                   !.pc = "step2"]
    /\ UNCHANGED <<sessionVars, stream, client, stdio>>

\* the value buildPasswordAdvanced returns for p
AdvancedReturn(p) ==
    LET result == Substring(p.result, p.length)
    IN [p EXCEPT !.pc = "done", !.result = result,
                 !.metadata = [length |-> Len(result)]]

\* STEP 2 and STEP 3, the digits and the symbol, and STEP 4: the test of
\* the second loop, one run of its body, and the return statement
AdvancedSteps2To4 ==
    /\ password.pc \in {"step2", "step4"}
    /\ IF password.pc = "step2"
       THEN \E n \in TwoDigitNumbers, c \in SYMBOLS :
              LET numbers == IF password.includeNumbers
                             THEN NumberToString(n) ELSE <<>>
                  symbol == IF password.includeSymbols THEN c ELSE ""
                  p == [password EXCEPT
                          !.result = @ \o numbers
                                       \o (IF symbol = "" THEN <<>> ELSE <<symbol>>),
                          !.numbers = numbers, !.symbol = symbol]
              IN password' = IF Len(p.result) < p.length
                             THEN [p EXCEPT !.pc = "step4"]
                             ELSE AdvancedReturn(p)
       ELSE \E k \in 1..Len(password.ponies), mode \in MODES :
              LET raw == renderFragment(password.ponies[k], mode)
              IN \E mask \in [1..Len(raw) -> BOOLEAN] :
                 LET fragment == applyCaseVariation(raw, password.includeUppercase, mask)
                     remainingSpace == password.length - Len(password.result)
                 IN IF Len(fragment) <= remainingSpace
                    THEN LET p == [password EXCEPT !.result = @ \o fragment]
                         IN password' = IF Len(p.result) < p.length
                                        THEN p ELSE AdvancedReturn(p)
                    ELSE password' = AdvancedReturn(
                             [password EXCEPT
                                !.result = @ \o Substring(fragment, remainingSpace)])
    /\ UNCHANGED <<sessionVars, stream, client, stdio>>

PasswordNext ==
    \/ buildPassword
    \/ buildPasswordLoop
    \/ buildPasswordAdvanced
    \/ AdvancedStep1
    \/ AdvancedSteps2To4

PasswordSpec == SseInit /\ [][PasswordNext]_vars

\* a loop that is being run takes its next turn, and Math.random() does not
\* avoid a pony and a mode for ever
PasswordFairSpec ==
    /\ PasswordSpec
    /\ WF_vars(PasswordNext)
    /\ \A k \in 1..MaxPonies, mode \in MODES :
         SF_vars(/\ buildPasswordLoop
                 /\ k <= Len(password.ponies)
                 /\ password'.out
                      = password.out \o renderFragment(password.ponies[k], mode))

----------------------------------------------------------------------------
(* Properties.                                                             *)

\* a response is being delivered / one that a route handler or the transport
\* behind it wrote (the middleware had called next(), where there is one)
Answered == resp # NoResponse
\* a request to /mcp has been answered, and not by the middleware
RoutedAnswer == Answered /\ resp.path = <<"mcp">> /\ resp.by # "middleware"

\* the requests whose route handler started in this step and is now suspended
Started ==
    IF BagCardinality(reqs') > BagCardinality(reqs)
    THEN {r \in BagToSet(reqs') : CopiesIn(r, reqs') > CopiesIn(r, reqs)}
    ELSE {}

\* a route handler ran in this step and answered without suspending
AnsweredAtOnce == resp = NoResponse /\ resp' # NoResponse /\ reqs' = reqs

\* the transport that was initialized with session id S, if any
TransportsOf(S) == {ref \in 1..Len(tobj) : tobj[ref].sessionId = S}

----------------------------------------------------------------------------
\* C1: in each of the three servers, a transport t registered under session
\* id S is what the lookup with S yields until t is closed (every registry
\* entry leads to the open transport carrying that id, every open
\* initialized transport is found under its id, and every reused request is
\* bound to the transport of its id), and no two transports were ever
\* registered under the same session id.
C1RegistryResolves ==
    /\ \A S \in DOMAIN transports :
         /\ transports[S] \in 1..Len(tobj)
         /\ tobj[transports[S]].sessionId = S
         /\ ~tobj[transports[S]].closed
    /\ \A ref \in 1..Len(tobj) :
         (tobj[ref].initialized /\ ~tobj[ref].closed)
             => RefGet(transports, tobj[ref].sessionId) = ref
    /\ \A i, j \in 1..Len(tobj) :
         (i # j /\ tobj[i].initialized /\ tobj[j].initialized)
             => tobj[i].sessionId # tobj[j].sessionId
    /\ \A r \in InFlight :
         r.pc = "inflight" =>
             /\ r.transport \in 1..Len(tobj)
             /\ tobj[r.transport].sessionId = r.sid

\* two sessions are registered and a GET found its transport by its id
C1Witness ==
    /\ KeyCount(transports) = 2
    /\ \E r \in InFlight :
         /\ r.method = "GET" /\ r.pc = "inflight"
         /\ RefGet(transports, r.sid) = r.transport

----------------------------------------------------------------------------
\* C2 as stated: in every server that mounts /mcp, once a DELETE carrying
\* the id S of a session has been answered, S is no longer in the registry.
C2DeleteEvictsEverywhere ==
    (RoutedAnswer /\ resp.method = "DELETE" /\ resp.sid \in known)
        => RefGet(transports, resp.sid) = NoTransport

C2State ==
    /\ \* the initialize response carries the new session id
       (resp.status = 200 /\ resp.body = "initialize") =>
           /\ resp.created
           /\ TruthyStr(resp.sessionHeader)
           /\ resp.sessionHeader \in known
           /\ TransportsOf(resp.sessionHeader) = {resp.transport}
    /\ \* a following POST is bound to the transport of its session
       \A r \in InFlight :
           (r.method = "POST" /\ r.pc = "inflight") =>
               /\ ~r.created
               /\ TransportsOf(r.sid) = {r.transport}
    /\ \* streamable-http.ts: DELETE closes the transport and evicts the entry
       (server # "demo" /\ RoutedAnswer /\ resp.method = "DELETE"
                        /\ resp.sid \in known) =>
           /\ RefGet(transports, resp.sid) = NoTransport
           /\ resp.status \in {200, 400}
           /\ resp.status = 200 =>
                 /\ resp.transport \in TransportsOf(resp.sid)
                 /\ tobj[resp.transport].closed
           /\ resp.status = 400 => \A ref \in TransportsOf(resp.sid) : tobj[ref].closed
    /\ \* DemoServer: DELETE is not allowed
       (server = "demo" /\ Answered /\ resp.method = "DELETE") =>
           /\ resp.status = 405
           /\ resp.payload = MethodNotAllowedError
    /\ \* an evicted session stays evicted, and a POST with its id gets the 400
       \A ref \in 1..Len(tobj) :
           tobj[ref].closed => RefGet(transports, tobj[ref].sessionId) = NoTransport
    /\ (RoutedAnswer /\ resp.method = "POST" /\ resp.sid \in known
                     /\ resp.transport = NoTransport) =>
           /\ resp.status = 400
           /\ resp.payload = NoValidSessionIdError
           /\ \A ref \in TransportsOf(resp.sid) : tobj[ref].closed

C2Step ==
    /\ \* handling a following POST creates no session
       \A r \in Started :
           (r.method = "POST" /\ r.pc = "inflight") =>
               /\ transports' = transports
               /\ Len(tobj') = Len(tobj)
    /\ \* the DemoServer's answer to DELETE leaves the registry alone
       (server = "demo" /\ AnsweredAtOnce /\ resp'.method = "DELETE") =>
           /\ transports' = transports
           /\ tobj' = tobj

\* C2 (amended): a POST initialize without session id is answered with a new
\* Mcp-Session-Id S; a following POST with S is handled by the transport of
\* S and creates no session; in the 4-auth and the plain streamable-http
\* server a DELETE with S closes the transport and evicts the entry, and a
\* later POST with S gets the 400 of the router; the DemoServer answers
\* every DELETE with 405 and keeps the session.
C2SessionScenario == []C2State /\ [][C2Step]_vars

\* a DELETE has just ended the session of a client in the 4-auth server
C2Witness ==
    /\ server = "auth"
    /\ resp.method = "DELETE" /\ resp.status = 200
    /\ resp.sid \in known
    /\ tobj[resp.transport].closed
    /\ RefGet(transports, resp.sid) = NoTransport

----------------------------------------------------------------------------
\* C3 as stated: a step creates a transport exactly if it is the route
\* handler of a POST with no Mcp-Session-Id header and an initialize body.
C3CreatedIffHeaderAbsent ==
    [][ /\ Len(tobj') \in {Len(tobj), Len(tobj) + 1}
        /\ (Len(tobj') = Len(tobj) + 1) <=>
               \/ \E r \in Started : /\ r.method = "POST"
                                      /\ r.sid = Undefined
                                      /\ r.body = "initialize"
               \/ /\ AnsweredAtOnce /\ resp'.created
                  /\ resp'.method = "POST" /\ resp'.sid = Undefined
                  /\ resp'.body = "initialize"
        /\ ~(/\ AnsweredAtOnce /\ resp'.by # "middleware" /\ ~resp'.created
             /\ resp'.method = "POST" /\ resp'.sid = Undefined
             /\ resp'.body = "initialize") ]_vars

\* C3 (amended): a step creates a transport exactly if it is the route
\* handler of a POST whose Mcp-Session-Id header is absent or empty and whose
\* body is an initialize request; such a request creates exactly one
\* transport, and an initialize body with a non-empty session id (known or
\* unknown) creates none.
C3CreatedIffNoSessionId ==
    [][ /\ Len(tobj') \in {Len(tobj), Len(tobj) + 1}
        /\ (Len(tobj') = Len(tobj) + 1) <=>
               \/ \E r \in Started : /\ r.method = "POST"
                                      /\ r.sid \in {Undefined, ""}
                                      /\ r.body = "initialize"
                                      /\ r.transport = Len(tobj')
               \/ \* the transport refuses the request at once
                  /\ AnsweredAtOnce /\ resp'.created
                  /\ resp'.method = "POST" /\ resp'.sid \in {Undefined, ""}
                  /\ resp'.body = "initialize"
                  /\ resp'.transport = Len(tobj')
        /\ ~(/\ AnsweredAtOnce /\ resp'.by # "middleware" /\ ~resp'.created
             /\ resp'.method = "POST" /\ resp'.sid \in {Undefined, ""}
             /\ resp'.body = "initialize") ]_vars

\* an initialize request with an empty Mcp-Session-Id header has created the
\* latest transport, and one without the header an earlier one
C3Witness ==
    /\ Len(tobj) = 2
    /\ \E r \in InFlight :
         /\ r.method = "POST" /\ r.sid = "" /\ r.body = "initialize"
         /\ r.transport = 2
    /\ \E r \in InFlight :
         /\ r.method = "POST" /\ r.sid = Undefined /\ r.body = "initialize"
         /\ r.transport = 1

----------------------------------------------------------------------------
\* C4: a POST whose session id is missing (body not initialize) or is not
\* in the registry is answered with 400 and the JSON-RPC error -32000 with
\* id null, a GET whose session id is missing or not in the registry with
\* 400; the router writes the answer, no transport is created and none
\* handles the request.
C4UnknownSessionIs400 ==
    (/\ RoutedAnswer
     /\ resp.method \in {"POST", "GET"}
     /\ \/ ~TruthyStr(resp.sid) /\ resp.body # "initialize"
        \/ TruthyStr(resp.sid) /\ resp.transport \notin 1..Len(tobj))
    => /\ resp.status = 400
       /\ resp.by = "router"
       /\ ~resp.created
       /\ resp.method = "POST" =>
              /\ resp.payload.jsonrpc = "2.0"
              /\ resp.payload.code = -32000
              /\ resp.payload.id = "null"

----------------------------------------------------------------------------
\* C5 as stated: a session id that was supplied but is not in the registry
\* is answered differently from a missing one, i.e. never with the response
\* the router gives when no session id is supplied.
C5UnknownDiffersFromMissing ==
    (/\ RoutedAnswer
     /\ TruthyStr(resp.sid) /\ resp.transport = NoTransport)
    => ~(/\ resp.status = 400
         /\ resp.payload = IF resp.method = "POST"
                           THEN [jsonrpc |-> "2.0", code |-> -32000,
                                 message |-> "Bad Request: No valid session ID provided",
                                 id |-> "null"]
                           ELSE PlainBody("Invalid or missing session ID"))

\* C5 (amended): the router does not distinguish the two outcomes: when the
\* registry lookup yields nothing, a supplied session id gets the response
\* of a missing one, 400 with the JSON-RPC error -32000 "Bad Request: No
\* valid session ID provided" on POST and 400 "Invalid or missing session
\* ID" on GET (and on DELETE in streamable-http.ts).
C5UnknownSameAsMissing ==
    (/\ RoutedAnswer
     /\ resp.transport = NoTransport /\ ~resp.created
     /\ ~(server = "demo" /\ resp.method = "DELETE"))
    => /\ resp.status = 400
       /\ resp.by = "router"
       /\ resp.payload = IF resp.method = "POST"
                         THEN [jsonrpc |-> "2.0", code |-> -32000,
                               message |-> "Bad Request: No valid session ID provided",
                               id |-> "null"]
                         ELSE PlainBody("Invalid or missing session ID")

\* the router is answering a POST that names a session it does not have
C5Witness ==
    /\ RoutedAnswer
    /\ resp.method = "POST" /\ resp.sid = "bogus" /\ resp.body = "tools/call"
    /\ resp.status = 400 /\ resp.by = "router"

----------------------------------------------------------------------------
\* C6: the registry entry S -> transport is there before the initialize
\* response is flushed: while the initialize response is pending and ever
\* after the client has received S, S leads to its transport unless that
\* transport has been closed; so a request with a received S gets the 400
\* of the router only when the session is closed.
C6RegisteredBeforeFlush ==
    /\ \A r \in InFlight :
         r.pc = "initialized" =>
             \/ RefGet(transports, tobj[r.transport].sessionId) = r.transport
             \/ tobj[r.transport].closed
    /\ \A S \in known :
         \E ref \in 1..Len(tobj) :
             /\ tobj[ref].sessionId = S
             /\ tobj[ref].closed \/ RefGet(transports, S) = ref
    /\ (RoutedAnswer /\ resp.sid \in known /\ resp.status = 400
                     /\ resp.by = "router") =>
           \E ref \in 1..Len(tobj) :
               tobj[ref].sessionId = resp.sid /\ tobj[ref].closed

\* the initialize response is being delivered and its session is registered
C6Witness ==
    /\ resp.status = 200 /\ resp.body = "initialize"
    /\ resp.sessionHeader \in known
    /\ RefGet(transports, resp.sessionHeader) = resp.transport
    /\ ~tobj[resp.transport].closed

----------------------------------------------------------------------------
----------------------------------------------------------------------------
\* the Authorization headers the gate has to turn away: none, another
\* scheme, an empty bearer token, a token the validation service rejects
C8Unauthorized ==
    { UndefinedSeq,
      <<"B", "a", "s", "i", "c", " ", "a">>,
      <<"B", "e", "a", "r", "e", "r", " ">>,
      <<"B", "e", "a", "r", "e", "r", " ", "x">> }

C8State ==
    /\ (server = "auth" /\ Answered /\ resp.path = <<"mcp">>) =>
           (resp.by = "middleware" <=> resp.auth \in C8Unauthorized)
    /\ (Answered /\ resp.by = "middleware") =>
           /\ server = "auth"
           /\ resp.status = 401
           /\ resp.www = <<"mcp", ".well-known", "oauth-protected-resource">>
           /\ resp.www \in DiscoveryRoutes
           /\ resp.transport = NoTransport
           /\ ~resp.created
    /\ server = "auth" =>
           \A r \in InFlight :
               r.isAuthenticated = "true" /\ r.token \in {<<"a">>, <<"b">>}

C8Step ==
    (resp = NoResponse /\ resp'.by = "middleware") =>
        /\ transports' = transports
        /\ tobj' = tobj
        /\ reqs' = reqs

----------------------------------------------------------------------------
\* C9: in the 4-auth server every request that has reached
\* transport.handleRequest runs in an AuthContext with isAuthenticated =
\* true whose token and tokenClaims are those the middleware attached to
\* this request, and an operation run for it observes isAuthenticated().
C9HandledInAuthContext ==
    /\ server = "auth" =>
         \A r \in InFlight :
             /\ Len(r.chain) = 1
             /\ r.chain[1] # NoStore
             /\ r.chain[1][1].isAuthenticated = TRUE
             /\ r.chain[1][1].token = r.token
             /\ r.chain[1][1].tokenClaims = r.tokenClaims
             /\ r.token \in {<<"a">>, <<"b">>}
             /\ r.tokenClaims = <<"s", "u", "b", "=">> \o r.token
    /\ observed.depth >= 1 =>
         /\ IsAuthenticated(observed.store) = TRUE
         /\ GetToken(observed.store) = observed.request.token
         /\ GetTokenClaims(observed.store) = observed.request.tokenClaims

\* a tool called with the padded token of bob observes its context
C9Witness ==
    /\ observed # NoObservation
    /\ observed.request.method = "POST"
    /\ observed.request.body = "tools/call"
    /\ GetToken(observed.store) = <<"b">>
    /\ IsAuthenticated(observed.store)

----------------------------------------------------------------------------
\* C10: whatever other requests are being handled, a getAuthContext() call
\* made from the chain of a request, at any nesting depth, returns the
\* context that request's runWithAuthContext was given, never another one.
C10ContextIsolation ==
    observed.depth >= 1 =>
        /\ observed.store # NoStore
        /\ observed.store[1] =
               [token |-> observed.request.token,
                tokenClaims |-> observed.request.tokenClaims,
                isAuthenticated |-> TRUE,
                sessionId |-> observed.request.sid]

\* a nested operation of one request reads its context while a request of
\* another user and another session is being handled
C10Witness ==
    /\ observed # NoObservation
    /\ observed.depth = MaxNested
    /\ \E r \in InFlight :
         /\ r.pc = "inflight"
         /\ r.token # observed.request.token
         /\ r.sid # observed.request.sid

----------------------------------------------------------------------------
\* C11: getAuthContext() called outside every runWithAuthContext scope
\* returns undefined, and then isAuthenticated() is false and
\* getTokenClaims(), getToken() and getSessionId() are undefined, whether no
\* scope has been entered yet, scopes of requests are running, or all of
\* them have completed.
C11NoneOutsideScope ==
    (observed # NoObservation /\ observed.depth = 0) =>
        /\ observed.store = NoStore
        /\ IsAuthenticated(observed.store) = FALSE
        /\ GetTokenClaims(observed.store) = UndefinedSeq
        /\ GetToken(observed.store) = UndefinedSeq
        /\ GetSessionId(observed.store) = Undefined

\* code outside every scope asks for the context after the chain of an
\* authenticated request has completed, while another one is still running
C11Witness ==
    /\ observed.request.body = "outside"
    /\ known # {}
    /\ \E r \in InFlight : r.pc = "inflight" /\ r.chain # <<>>

----------------------------------------------------------------------------
\* the ids of the events written to the stream so far, in the order written
EmittedIds ==
    LET events == SelectSeq(stream.frames, LAMBDA f : f.event \in {"even", "odd"})
    IN [n \in 1..Len(events) |-> events[n].id]

\* the sequence a, a+1, ..., b (empty when b < a)
Range(a, b) == [n \in 1..(IF b < a THEN 0 ELSE b - a + 1) |-> a + n - 1]

\* the handler has ended the response and the client was there to the end
EndedNormally ==
    /\ stream.pc = "done" /\ stream.status = 200
    /\ ~stream.closed

\* C12 as stated: a request to /custom-events-with-id resumed with last-seen
\* id k, 0 <= k <= 9, is answered with exactly the events k+1..9 in order.
C12ResumeEmitsRest ==
    (stream.route = "custom-events-with-id" /\ EndedNormally) =>
        \A k \in 0..(NumEvents - 1) :
            stream.lastEventId = NumberToString(k) =>
                EmittedIds = Range(k + 1, NumEvents - 1)

\* C12 (amended): a request to /custom-events-with-id resumed with last-seen
\* id k is answered with the events k+1, k+2, ... in increasing order without
\* duplicates or gaps, up to 9 when 5 <= k <= 9 (for k = 5: [6,7,8,9]), but
\* only up to 5 when 0 <= k <= 4, where the route ends the stream after the
\* event with id 5.
C12ResumeEmitsRestOrUpToFive ==
    stream.route = "custom-events-with-id" =>
        \A k \in 0..(NumEvents - 1) :
            stream.lastEventId = NumberToString(k) =>
                /\ EmittedIds = Range(k + 1, k + Len(EmittedIds))
                /\ EndedNormally =>
                       EmittedIds = Range(k + 1, IF k < SimulatedErrorAt
                                                 THEN SimulatedErrorAt
                                                 ELSE NumEvents - 1)

\* the stream resumed after id 2 has ended with the events 3, 4 and 5
C12Witness ==
    /\ stream.route = "custom-events-with-id" /\ EndedNormally
    /\ stream.lastEventId = <<"2">>
    /\ EmittedIds = <<3, 4, 5>>

----------------------------------------------------------------------------
\* a decimal numeral: digits only, after an optional sign
IsNumeral(h) ==
    LET digits == IF h # <<>> /\ Head(h) \in {"-", "+"} THEN Tail(h) ELSE h
    IN digits # <<>> /\ \A n \in 1..Len(digits) : IsDigit(digits[n])

\* the stream has been started and carries the events 0, 1, 2, ... so far
StartedFromZero ==
    /\ stream.status = 200
    /\ EmittedIds = Range(0, Len(EmittedIds) - 1)
    /\ EndedNormally => EmittedIds = Range(0, SimulatedErrorAt)

\* C13 as stated: a request to /custom-events-with-id whose Last-Event-Id
\* header is absent, or present but not a number or negative, gets no error
\* response and a stream that starts with event id 0.
C13InvalidCursorRestarts ==
    (/\ stream.route = "custom-events-with-id" /\ stream.accepts
     /\ \/ stream.lastEventId = UndefinedSeq
        \/ ~IsNumeral(stream.lastEventId)
        \/ Head(stream.lastEventId) = "-")
    => StartedFromZero

\* C13 (amended): a request to /custom-events-with-id whose Last-Event-Id
\* header is absent or empty, does not begin with a decimal number (e.g.
\* "abc") or is negative (e.g. "-3") gets no error response and a stream
\* that starts with event id 0, after a comment line when the header was
\* present and invalid; a header that begins with a number and goes on with
\* other characters (e.g. "7x") is taken as that number and resumes after it.
C13InvalidCursorRestartsUnlessPrefix ==
    (stream.route = "custom-events-with-id" /\ stream.accepts) =>
        /\ stream.lastEventId \in {UndefinedSeq, <<>>} =>
               /\ StartedFromZero
               /\ \A n \in 1..Len(stream.frames) :
                      stream.frames[n] # CommentFrame
        /\ stream.lastEventId \in {<<"a", "b", "c">>, <<"-", "3">>} =>
               /\ StartedFromZero
               /\ Len(stream.frames) >= 1 /\ stream.frames[1] = CommentFrame
        /\ stream.lastEventId = <<"7", "x">> =>
               /\ stream.status = 200
               /\ EmittedIds = Range(8, 7 + Len(EmittedIds))
               /\ EndedNormally => EmittedIds = <<8, 9>>

\* the stream requested with Last-Event-Id "-3" has ended after the events
\* 0 to 5
C13Witness ==
    /\ stream.route = "custom-events-with-id" /\ EndedNormally
    /\ stream.lastEventId = <<"-", "3">>
    /\ EmittedIds = <<0, 1, 2, 3, 4, 5>>

----------------------------------------------------------------------------
\* the end-of-stream marker of each route
MarkerOf(route) == IF route = "data-only" THEN EmptyDataFrame ELSE EomFrame

\* the last frame written to the response is the route's marker
EndsWithMarker ==
    /\ stream.frames # <<>>
    /\ stream.frames[Len(stream.frames)] = MarkerOf(stream.route)

\* no marker has been written at all
Unmarked == \A n \in 1..Len(stream.frames) : stream.frames[n] # EomFrame

\* C14 as stated: on every route, a stream the server has ended while the
\* client was still connected ends with the end-of-stream marker.
C14EndsWithMarker ==
    (stream.route \in SseRoutes /\ EndedNormally) => EndsWithMarker

\* C14 (amended): a stream of /data-only or /custom-events that the server
\* has ended while the client was still connected ends with the marker. A
\* stream of /custom-events-with-id does so only when it was resumed after a
\* last-seen id from 5 to 9; without resumption header (the default path),
\* with an invalid one or after a last-seen id below 5 it is ended right
\* after the event with id 5 and carries no marker; resumed beyond the last
\* event it is ended with no frame at all.
C14EndsWithMarkerUnlessTruncated ==
    EndedNormally =>
        /\ stream.route \in {"data-only", "custom-events"} => EndsWithMarker
        /\ stream.route = "custom-events-with-id" =>
             /\ (\E k \in SimulatedErrorAt..(NumEvents - 1) :
                     stream.lastEventId = NumberToString(k)) => EndsWithMarker
             /\ stream.lastEventId = <<"7", "x">> => EndsWithMarker
             /\ (\/ stream.lastEventId \in
                        {UndefinedSeq, <<>>, <<"a", "b", "c">>, <<"-", "3">>}
                 \/ \E k \in 0..(SimulatedErrorAt - 1) :
                        stream.lastEventId = NumberToString(k)) =>
                    /\ Unmarked
                    /\ stream.frames[Len(stream.frames)] =
                           EventFrame(stream.route, SimulatedErrorAt)
             /\ stream.lastEventId = NumberToString(12) =>
                    stream.frames = <<>>

\* the default path of /custom-events-with-id has ended after the event
\* with id 5
C14Witness ==
    /\ stream.route = "custom-events-with-id" /\ EndedNormally
    /\ stream.lastEventId = UndefinedSeq
    /\ stream.frames[Len(stream.frames)] = EventFrame(stream.route, 5)
    /\ Unmarked

----------------------------------------------------------------------------
\* C15: once the client has disconnected, the handler of any SSE route
\* writes nothing more to the response, neither an event nor the marker: the
\* response holds the frames it held when 'close' was emitted.
C15NoWriteAfterClose ==
    stream.closed => Len(stream.frames) = stream.closedAt

----------------------------------------------------------------------------
\* C16: when the client disconnects during a pacing delay, the timer of that
\* delay is cancelled: no timer of a disconnected stream is pending and the
\* handler is not left suspended in the delay.
C16TimerCancelled ==
    stream.closed => ~stream.timer /\ stream.pc # "sleeping"

----------------------------------------------------------------------------
\* the transports that close in this step
Closing == {ref \in 1..Len(tobj) : ~tobj[ref].closed /\ tobj'[ref].closed}

\* the session ids whose transport has closed
ClosedSessions ==
    {tobj[ref].sessionId : ref \in {n \in 1..Len(tobj) : tobj[n].closed}}

\* C17: the step in which a registered transport closes, by a DELETE of the
\* client or from the server side, also removes its session id from the
\* registry; no registry entry leads to a closed transport; and a request
\* that bears the session id of a closed transport is answered as one with
\* an id that was never issued: by the router, bound to no transport, with
\* the 400 of an unknown session (the DemoServer's 405 for DELETE).
C17ClosedStep ==
    /\ \A ref \in Closing :
         /\ RefGet(transports, tobj[ref].sessionId) = ref
         /\ RefGet(transports', tobj[ref].sessionId) = NoTransport
         /\ \A S \in DOMAIN transports' : transports'[S] = transports[S]
    /\ \* no later request with the id is handed to a transport
       \A r \in Started : r.sid \notin ClosedSessions
    /\ (/\ AnsweredAtOnce /\ resp'.by # "middleware"
        /\ resp'.sid \in ClosedSessions) =>
           /\ resp'.by = "router"
           /\ resp'.transport = NoTransport
           /\ resp'.status = IF server = "demo" /\ resp'.method = "DELETE"
                             THEN 405 ELSE 400
           /\ transports' = transports /\ tobj' = tobj

C17ClosedState ==
    /\ \A S \in DOMAIN transports : ~tobj[transports[S]].closed
    /\ \A ref \in 1..Len(tobj) :
           tobj[ref].closed =>
               RefGet(transports, tobj[ref].sessionId) = NoTransport

C17ClosedNeverReachable == []C17ClosedState /\ [][C17ClosedStep]_vars

\* the DemoServer has closed the transport of a session and answers a later
\* request with its id as for an unknown session
C17Witness ==
    /\ server = "demo"
    /\ RoutedAnswer /\ resp.method = "POST" /\ resp.status = 400
    /\ resp.sid \in known /\ resp.sid \in ClosedSessions
    /\ RefGet(transports, resp.sid) = NoTransport

----------------------------------------------------------------------------
\* the transports whose close handler runs once more in this step
ClosingAgain ==
    {ref \in 1..Len(tobj) :
        closeEvent = NoClose /\ closeEvent' = [transport |-> ref, again |-> TRUE]}

\* C18: running the close handler of a transport a second time (after a
\* DELETE or an earlier close has run it once) leaves the registry as the
\* first run left it: the step changes no entry, and on every reachable
\* registry the handler applied twice yields what it yields applied once,
\* which is the registry without that session's entry and with every other
\* entry as it was.
C18SecondCloseStep ==
    \A ref \in ClosingAgain :
        /\ transports' = transports
        /\ \A o \in 1..Len(tobj) : o # ref => tobj'[o] = tobj[o]

C18OnceIsTwice ==
    \A ref \in 1..Len(tobj) :
        LET t == tobj[ref]
            once == OnClose(transports, t)
        IN /\ OnClose(once, t) = once
           /\ DOMAIN once = DOMAIN transports \ {t.sessionId}
           /\ \A S \in DOMAIN once : once[S] = transports[S]

C18IdempotentRemoval == []C18OnceIsTwice /\ [][C18SecondCloseStep]_vars

\* the close handler of a closed transport has run again while another
\* session is registered
C18Witness ==
    /\ closeEvent.again
    /\ tobj[closeEvent.transport].closed
    /\ DOMAIN transports # {}
    /\ tobj[closeEvent.transport].sessionId \notin DOMAIN transports

----------------------------------------------------------------------------
\* the sessions that have been initialized and whose transport is not closed
ActiveSessions ==
    {ref \in 1..Len(tobj) : tobj[ref].initialized /\ ~tobj[ref].closed}

\* GET /health has been answered by its route
HealthAnswer == Answered /\ resp.method = "GET" /\ resp.path = <<"health">>

\* C19: in the 4-auth and in the plain streamable-http server, whatever
\* initialize requests, follow-ups, DELETEs and closes came before, GET
\* /health is answered with 200 and an activeSessions value that is the
\* number of sessions initialized and not yet closed.
C19HealthCountsActiveSessions ==
    HealthAnswer =>
        /\ resp.status = 200
        /\ resp.payload.status = "healthy"
        /\ resp.payload.activeSessions = Cardinality(ActiveSessions)

\* /health reports one active session after two were initialized and one of
\* them was closed
C19Witness ==
    /\ HealthAnswer
    /\ resp.payload.activeSessions = 1
    /\ Len(tobj) = 2
    /\ \E ref \in 1..2 : tobj[ref].closed

----------------------------------------------------------------------------
\* the Authorization headers that authenticate nobody
C20Unauthenticated ==
    { UndefinedSeq,
      <<"B", "a", "s", "i", "c", " ", "a">>,
      <<"B", "e", "a", "r", "e", "r", " ", "x">> }

\* C20: in the 4-auth server a GET of /health, of
\* /.well-known/oauth-protected-resource/mcp or of
\* /mcp/.well-known/oauth-protected-resource is answered with 200 by its
\* route whatever the Authorization header, never with 401 by the
\* middleware, the path under /mcp included.
C20PublicRoutes ==
    (/\ server = "auth" /\ Answered /\ resp.method = "GET"
     /\ resp.path \in { <<"health">>,
                        <<".well-known", "oauth-protected-resource", "mcp">>,
                        <<"mcp", ".well-known", "oauth-protected-resource">> })
    => /\ resp.status = 200
       /\ resp.by = IF resp.path = <<"health">> THEN "health" ELSE "discovery"
       /\ resp.www = <<>>

\* the discovery route under /mcp answers a request that carries a rejected
\* token
C20Witness ==
    /\ server = "auth" /\ Answered
    /\ resp.path = <<"mcp", ".well-known", "oauth-protected-resource">>
    /\ resp.auth \in C20Unauthenticated /\ resp.auth # UndefinedSeq
    /\ resp.status = 200

----------------------------------------------------------------------------
\* C21: the response to an initialize request that created a session carries
\* an Mcp-Session-Id header, and its value is the key under which the
\* transport of that request was registered: the session id of the transport,
\* under which the registry holds it until it is closed.
C21HeaderIsRegistryKey ==
    /\ (Answered /\ resp.created /\ resp.status = 200) =>
           /\ resp.body = "initialize"
           /\ TruthyStr(resp.sessionHeader)
           /\ resp.sessionHeader = tobj[resp.transport].sessionId
           /\ \/ RefGet(transports, resp.sessionHeader) = resp.transport
              \/ tobj[resp.transport].closed
    /\ \* res.setHeader in the callback of streamable-http.ts
       \A r \in InFlight :
           (server # "demo" /\ r.pc = "initialized") =>
               /\ TruthyStr(r.sessionHeader)
               /\ r.sessionHeader = tobj[r.transport].sessionId
               /\ \/ RefGet(transports, r.sessionHeader) = r.transport
                  \/ tobj[r.transport].closed

\* the plain server answers the initialize request of its second session
C21Witness ==
    /\ server = "plain"
    /\ Answered /\ resp.created /\ resp.status = 200
    /\ resp.sessionHeader = "uuid-2"
    /\ RefGet(transports, "uuid-2") = resp.transport

----------------------------------------------------------------------------
\* a line that is no JSON text
Unparsable(line) ==
    line \in { <<"{">>, <<"{", "id:1">>, <<"h", "i">>,
               <<"{", "method:initialize", "id:1", "x">> }

\* the server run from its start on the given lines
RECURSIVE Run(_, _)
Run(s, lines) ==
    IF lines = <<>> \/ ~s.alive THEN s
    ELSE Run(OnLine(s, Head(lines)), Tail(lines))

\* C22: every line that is no JSON text is answered with exactly one frame,
\* the error -32700 with id null, and changes nothing else: the server is
\* alive after it, and apart from these error frames its output, and whether
\* it still runs, are those of a server that has read the same lines without
\* the unparsable ones.
C22ParseErrorIsLocal ==
    LET bad == SelectSeq(stdio.input, Unparsable)
        good == SelectSeq(stdio.input, LAMBDA l : ~Unparsable(l))
        errors == SelectSeq(stdio.out, LAMBDA f : f.error = -32700)
        others == SelectSeq(stdio.out, LAMBDA f : f.error # -32700)
        clean == Run(NoStdio, good)
    IN /\ Len(errors) = Len(bad)
       /\ \A n \in 1..Len(errors) : errors[n] = [id |-> "null", result |-> "none", error |-> -32700]
       /\ others = clean.out
       /\ stdio.alive = clean.alive
       /\ (stdio.input # <<>> /\ Unparsable(stdio.input[Len(stdio.input)])) =>
              /\ stdio.alive
              /\ stdio.out # <<>>
              /\ stdio.out[Len(stdio.out)].error = -32700

\* an unparsable line between two requests: three frames, the second one the
\* parse error
C22Witness ==
    /\ Len(stdio.input) = 3 /\ Len(stdio.out) = 3
    /\ Unparsable(stdio.input[2])
    /\ stdio.out[1].result = "initialize"
    /\ stdio.out[2].error = -32700
    /\ stdio.out[3].result = "password"

----------------------------------------------------------------------------
\* C23: when the handling of a POST /mcp raises an exception, the route
\* handler itself answers, with status 500 and the JSON-RPC error -32603
\* "Internal server error" with id null; the exception never reaches Express.
C23ExceptionsAreCaught ==
    (Answered /\ resp.method = "POST" /\ resp.path = <<"mcp">>
              /\ (resp.status = 500 \/ resp.by = "express")) =>
        /\ resp.by = "router"
        /\ resp.status = 500
        /\ resp.payload = [jsonrpc |-> "2.0", code |-> -32603,
                           message |-> "Internal server error", id |-> "null"]

----------------------------------------------------------------------------
\* a request is answered with an error in this step
ErrorAnswer == resp = NoResponse /\ resp' # NoResponse /\ resp'.status >= 400

\* C24: a request that is answered with an error (400, 401, 405, 406, 409,
\* 500) leaves the registry and every transport as they were: the step that
\* writes the answer adds no entry, removes none and touches no transport,
\* a refused initialize request included; and the registry never holds a
\* transport that is not initialized under the key's session id.
C24ErrorStep ==
    ErrorAnswer =>
        /\ transports' = transports
        /\ \A ref \in 1..Len(tobj) : tobj'[ref] = tobj[ref]
        /\ \A ref \in (Len(tobj) + 1)..Len(tobj') : ~tobj'[ref].initialized
        /\ \A r \in BagToSet(reqs') : CopiesIn(r, reqs') <= CopiesIn(r, reqs)

C24NoHalfCreated ==
    \A S \in DOMAIN transports :
        /\ transports[S] \in 1..Len(tobj)
        /\ tobj[transports[S]].initialized
        /\ tobj[transports[S]].sessionId = S

C24ErrorsLeaveRegistry == []C24NoHalfCreated /\ [][C24ErrorStep]_vars

\* an initialize request has been refused while another session is
\* registered
C24Witness ==
    /\ Answered /\ resp.body = "initialize" /\ resp.sid = Undefined
    /\ resp.status = 406
    /\ DOMAIN transports # {}

----------------------------------------------------------------------------
\* the values of the lines of the output element, in their order
OutputValues == [k \in 1..Len(client.output) |-> client.output[k].value]

\* the sequence a, a + 1, ..., b
FromTo(a, b) == [k \in 1..(b - a + 1) |-> a + k - 1]

\* the page's own EventSource: one created without a last event id
OwnClient == client.state # "none" /\ client.start = UndefinedSeq

Stopped == client.state # "none" /\ client.state = "stopped"

C25State ==
    LET first == SelectSeq(client.output, LAMBDA e : e.cursor = UndefinedSeq)
        second == SelectSeq(client.output,
                            LAMBDA e : e.cursor = NumberToString(SimulatedErrorAt))
    IN /\ client.output = first \o second
       /\ client.requested \in {UndefinedSeq, NumberToString(SimulatedErrorAt)}
       /\ \E n \in 0..(SimulatedErrorAt + 1) :
            [k \in 1..Len(first) |-> first[k].value] = FromTo(0, n - 1)
       /\ \E n \in SimulatedErrorAt..(NumEvents - 1) :
            [k \in 1..Len(second) |-> second[k].value]
                = FromTo(SimulatedErrorAt + 1, n)
       /\ client.requested # UndefinedSeq
            => Len(first) = SimulatedErrorAt + 1
       /\ client.state = "stopped"
            => /\ client.requested = NumberToString(SimulatedErrorAt)
               /\ OutputValues = FromTo(0, NumEvents - 1)
       /\ (stream.ended /\ client.requested = UndefinedSeq)
            => /\ \A k \in 1..Len(stream.frames) :
                     stream.frames[k].event # "eom"
               /\ [k \in 1..Len(stream.frames) |-> stream.frames[k].id]
                     = FromTo(0, SimulatedErrorAt)

\* C25: the EventSource of the page, created without a last event id and
\* closed only by its eom listener, gets ids 0..5 and no eom from its first
\* request, asks again with last event id 5 and gets ids 6..9 and then eom;
\* its output holds each of 0..9 once, in increasing order, and it
\* eventually stops.
C25ReconnectFlow ==
    /\ [](OwnClient => C25State)
    /\ (OwnClient ~> Stopped)

C25Witness ==
    /\ OwnClient
    /\ client.state = "stopped"
    /\ Len(client.output) = NumEvents
    /\ client.output[SimulatedErrorAt + 2].cursor
         = NumberToString(SimulatedErrorAt)

\* C26: whatever last event id k >= 0 the EventSource starts with, it
\* eventually gets eom and stops.
C26ReconnectTerminates ==
    (client.state # "none") ~> Stopped

----------------------------------------------------------------------------
\* transport.handleRequest is called for x in this step, on a transport the
\* registry holds under the session id of x or on one that this step has
\* created for x
HandedOver(x) ==
    IF x.created
    THEN x.transport = Len(tobj) + 1 /\ Len(tobj') = Len(tobj) + 1
    ELSE /\ TruthyStr(x.sid)
         /\ x.sid \in DOMAIN transports
         /\ transports[x.sid] = x.transport
         /\ x.transport \in 1..Len(tobj)
         /\ ~tobj[x.transport].closed

\* the requests that come back from `await server.connect(transport)` in
\* this step
Resumed ==
    {r \in InFlight : r.pc = "connecting" /\ CopiesIn(r, reqs') < CopiesIn(r, reqs)}

C27Step ==
    /\ \A r \in Started : r.pc \in {"inflight", "initialized"} => HandedOver(r)
    /\ (AnsweredAtOnce /\ resp'.by = "transport") => HandedOver(resp')
    /\ \A r \in Resumed :
         /\ r.created
         /\ r.transport \in 1..Len(tobj)
         /\ ~tobj[r.transport].initialized
         /\ ~tobj[r.transport].closed
         /\ \A S \in DOMAIN transports : transports[S] # r.transport
         /\ \A q \in InFlight : q.transport = r.transport => q = r

\* C27: transport.handleRequest is called only in the step that has looked
\* the transport up in the registry under the session id of the request,
\* where it is still open, or in the step that has created it for this
\* request; the DemoServer's await between creation and call is on a
\* transport that no registry entry and no other request leads to.
C27DispatchToRegistered == [][C27Step]_vars

\* a request was handed to the transport of a session while another
\* session's transport had been closed and evicted
C27Witness ==
    /\ \E r \in InFlight :
         /\ r.pc = "inflight" /\ ~r.created
         /\ r.sid \in DOMAIN transports /\ transports[r.sid] = r.transport
    /\ \E ref \in 1..Len(tobj) : tobj[ref].closed

----------------------------------------------------------------------------
\* a POST to /mcp is answered in this step by its route handler without
\* being suspended
PostAnsweredAtOnce ==
    /\ AnsweredAtOnce
    /\ resp'.path = McpPath /\ resp'.by # "middleware"
    /\ resp'.method = "POST"

C28Step ==
    /\ \A r \in Started :
         IF r.created THEN r.sid = Undefined
         ELSE r.sid \in DOMAIN transports /\ transports[r.sid] = r.transport
    /\ (PostAnsweredAtOnce /\ resp'.sid # Undefined
           /\ resp'.sid \notin DOMAIN transports)
         => /\ resp'.status = 400
            /\ resp'.payload = NoValidSessionIdError
            /\ resp'.transport = NoTransport

\* C28: a request is handed to a transport by lookup only under an id that
\* an onsessioninitialized callback has stored and no close has removed,
\* and a POST with any other Mcp-Session-Id header is answered with the 400
\* of "no valid session".
C28OnlyIssuedIds == [][C28Step]_vars

----------------------------------------------------------------------------
\* getSessionId() has been called inside the handling of a request
SessionIdObserved ==
    observed # NoObservation /\ observed.request.body # "outside"

\* C29: in the auth server getSessionId(), called anywhere inside the
\* handling of a request, returns the Mcp-Session-Id header of that request:
\* nothing (undefined) during the initialize request that creates session
\* S, and S in every later request of the session.
C29SessionIdIsHeader ==
    SessionIdObserved =>
        LET r == observed.request
            got == GetSessionId(observed.store)
        IN /\ got = r.sid
           /\ IF r.created
              THEN got = Undefined /\ got # tobj[r.transport].sessionId
              ELSE got = tobj[r.transport].sessionId

\* C29 as the code has it: an empty Mcp-Session-Id header counts as none,
\* so during the initialize request that creates S getSessionId() returns
\* undefined or the empty string, never S.
C29SessionIdIsHeaderOrEmpty ==
    SessionIdObserved =>
        LET r == observed.request
            got == GetSessionId(observed.store)
        IN /\ got = r.sid
           /\ IF r.created
              THEN got \in {Undefined, ""} /\ got # tobj[r.transport].sessionId
              ELSE got = tobj[r.transport].sessionId

\* getSessionId() was called during the initialize request that has created
\* a session, and in a later request of a session
C29Witness ==
    /\ SessionIdObserved
    /\ observed.request.created
    /\ tobj[observed.request.transport].initialized
    /\ GetSessionId(observed.store) = Undefined
    /\ \E q \in InFlight : ~q.created /\ q.sid = tobj[q.transport].sessionId

----------------------------------------------------------------------------
\* the transports transport.handleRequest has been called on
Handled ==
    {ref \in 1..Len(tobj) :
        \/ tobj[ref].initialized
        \/ \E r \in InFlight : r.transport = ref /\ r.pc # "connecting"
        \/ Answered /\ resp.transport = ref /\ resp.by = "transport"}

\* C30: a transport is connected once, when it is created and before
\* handleRequest is called on it, and never again when it is reused; the
\* DemoServer calls handleRequest only after the awaited connect has come
\* back, and gives each transport a server instance of its own.
C30ConnectedOnceBeforeUse ==
    /\ \A ref \in 1..Len(tobj) : tobj[ref].connects = 1
    /\ \A r \in InFlight :
         r.pc = "connecting"
             => /\ server = "demo" /\ r.created
                /\ r.transport \notin Handled
                /\ tobj[r.transport].connects = 1
    /\ server = "demo"
         => /\ mcpServers = Len(tobj)
            /\ \A a, b \in 1..Len(tobj) :
                   tobj[a].server = tobj[b].server => a = b

\* the DemoServer holds two sessions, each with its own server, and a
\* request is being handled on a reused transport
C30Witness ==
    /\ server = "demo"
    /\ Len(tobj) = 2
    /\ \A ref \in 1..2 : tobj[ref].initialized
    /\ tobj[1].server # tobj[2].server
    /\ \E r \in InFlight : ~r.created /\ r.pc = "inflight" /\ r.transport \in Handled

----------------------------------------------------------------------------
\* the line is the text of a JSON-RPC request that carries an id
IsRequestWithId(line) ==
    LET msg == JsonParse(line)
    IN /\ msg # SyntaxError
       /\ msg.kind = "object"
       /\ msg.method # Undefined
       /\ msg.id # Undefined

\* the ids of the requests among the lines, in the order of the lines
RECURSIVE RequestIds(_)
RequestIds(lines) ==
    IF lines = <<>> THEN <<>>
    ELSE (IF IsRequestWithId(Head(lines))
          THEN <<JsonParse(Head(lines)).id>> ELSE <<>>)
         \o RequestIds(Tail(lines))

\* the ids of the frames written in answer to a request with an id
AnsweredIds ==
    LET answers == SelectSeq(stdio.out, LAMBDA f : f.id \notin {"null", Undefined})
    IN [k \in 1..Len(answers) |-> answers[k].id]

\* C31: the frames the stdio server has written for requests with an id are
\* one for each such line read, with the id of the line, in the order of the
\* lines; and a run of blank lines only writes nothing.
C31EveryRequestAnswered ==
    /\ AnsweredIds = RequestIds(stdio.input)
    /\ (\A k \in 1..Len(stdio.input) : Trim(stdio.input[k]) = <<>>)
         => stdio.out = <<>>

----------------------------------------------------------------------------
\* buildPassword is in its loop / has returned
InBuildPassword ==
    password.pc # "none" /\ password.fn = "buildPassword" /\ password.pc = "loop"
BuildPasswordReturned ==
    password.pc # "none" /\ password.fn = "buildPassword" /\ password.pc = "done"

\* what buildPassword has returned is long enough, and substituted if asked
C32Returned ==
    BuildPasswordReturned =>
        /\ IF password.ponies = <<>> THEN password.result = <<>>
           ELSE Len(password.result) >= password.minLength
        /\ password.special =>
              /\ Len(password.result) = Len(password.out)
              /\ \A k \in 1..Len(password.result) :
                    password.result[k]
                        \notin {"o", "O", "i", "I", "e", "E", "s", "S"}

----------------------------------------------------------------------------
\* buildPasswordAdvanced has returned
AdvancedReturned ==
    password.pc # "none" /\ password.fn = "buildPasswordAdvanced"
        /\ password.pc = "done"

\* C33: for a length of the tool's range, any flags and ponies of the
\* loader, buildPasswordAdvanced returns a result of exactly `length`
\* characters and reports that length; with includeNumbers and
\* includeSymbols the result ends with the two digits and the symbol that
\* were appended.
C33ExactLength ==
    AdvancedReturned =>
        /\ Len(password.result) = password.length
        /\ password.metadata.length = password.length
        /\ (password.includeNumbers /\ password.includeSymbols) =>
              /\ Len(password.numbers) = 2
              /\ \A k \in 1..2 : IsDigit(password.numbers[k])
              /\ password.symbol \in SYMBOLS
              /\ SubSeq(password.result, password.length - 2,
                        password.length - 1) = password.numbers
              /\ password.result[password.length] = password.symbol

\* a call with all three flags whose last fragment had to be cut to keep
\* room for the digits and the symbol
C33Witness ==
    /\ AdvancedReturned
    /\ password.includeNumbers /\ password.includeSymbols
    /\ password.includeUppercase
    /\ password.length = ToolMinLength
    /\ Len(password.ponies) = 1
    /\ Len(password.result) = password.length
====
